---- MODULE Spec2Model ----
(***************************************************************************)
(* Transaction pool of SipengXie/Execution: the per-account nonce map and  *)
(* list (txpool/list.go and its sorted map), the hash lookup               *)
(* (pool_instance/lookup.go) and the priced list                           *)
(* (pool_instance/priced_list.go).                                         *)
(***************************************************************************)
EXTENDS Integers, Sequences, FiniteSets, TLC

VARIABLES
    strict,      \* list.strict
    items,       \* list.txs: SortedMap.items (nonce -> tx); the tree holds DOMAIN items
    costcap,     \* list.costcap
    gascap,      \* list.gascap
    totalcost,   \* list.totalcost
    slots,       \* Lookup.slots
    locals,      \* Lookup.locals  (set of stored hashes)
    remotes,     \* Lookup.remotes (set of stored hashes)
    stales,      \* PricedList.stales
    urgent,      \* PricedList.urgent.list
    floating,    \* PricedList.floating.list
    baseFee,     \* PricedList.urgent.baseFee (0: not set)
    accounts,    \* accountSet.accounts
    cache,       \* accountSet.cache
    lock,        \* Lookup.lock: whether a writer holds it, and the number of readers holding it
    writer,      \* the goroutine that mutates the Lookup: its position and its locals
    reader,      \* a goroutine that reads the Lookup out of band: its position and what it saw
    reheaping,   \* a goroutine in PricedList.Reheap: its position and its locals
    putting,     \* a goroutine adding a remote transaction: its position in Lookup.Add and Put
    discarding,  \* a call of PricedList.Discard in its loop: its position and its locals
    ints,        \* the big.Int objects allocated so far: ints[p] is the value behind pointer p
    original,    \* an EasyStateDB: balances (address -> pointer, 0: no entry) and nonces
    copy,        \* the EasyStateDB that original.Copy() returned, once it is called
    op,          \* the call that produced the current state, with its arguments
    ret          \* what that call returned

listVars == <<strict, items, costcap, gascap, totalcost>>
lookupVars == <<slots, locals, remotes>>
pricedVars == <<stales, urgent, floating, baseFee>>
setVars == <<accounts, cache>>
\* what the list, the lookup and the priced list do not touch
threadVars == <<lock, writer, reader>>
raceVars == <<reheaping, putting>>
stateVars == <<ints, original, copy>>
restVars == <<setVars, threadVars, raceVars, discarding, stateVars>>
vars == <<strict, items, costcap, gascap, totalcost, slots, locals, remotes,
          stales, urgent, floating, baseFee, accounts, cache, lock, writer, reader,
          reheaping, putting, discarding, ints, original, copy, op, ret>>

\* a nil accountSet.cache, and one that points to a flattened list
NilCache == [nil |-> TRUE, list |-> <<>>]
CacheOf(list) == [nil |-> FALSE, list |-> list]

\* a goroutine outside the Lookup's methods
IdleWriter ==
    [pc |-> "idle", name |-> "", h |-> 0, local |-> FALSE, set |-> {}, todo |-> <<>>,
     migrated |-> 0, found |-> FALSE]
IdleReader == [pc |-> "idle", name |-> "", h |-> 0, local |-> FALSE, remote |-> FALSE, seen |-> <<>>]

\* a goroutine outside the PricedList's methods; list is the slice header it has loaded
IdleReheap == [pc |-> "idle", todo |-> <<>>, list |-> <<>>]
IdlePut == [pc |-> "idle", h |-> 0, list |-> <<>>]

\* no Discard is running; slots, force and drop are the locals of a running one
IdleDiscard == [pc |-> "idle", asked |-> 0, slots |-> 0, force |-> FALSE, drop |-> <<>>]

\* NewEasyStateDB(): two empty maps; a nonce that is not set reads 0
NewEasyStateDB == [balances |-> [a \in {"A", "B"} |-> 0], nonces |-> [a \in {"A", "B"} |-> 0]]
\* Copy has not been called
NoStateDB == [balances |-> <<>>, nonces |-> <<>>]

\* newAccountSet(): no account, no cache; NewLookup(): the lock is free; NewEasyStateDB()
RestInit ==
    /\ accounts = {} /\ cache = NilCache
    /\ lock = [w |-> FALSE, r |-> 0] /\ writer = IdleWriter /\ reader = IdleReader
    /\ reheaping = IdleReheap /\ putting = IdlePut
    /\ discarding = IdleDiscard
    /\ ints = <<>> /\ original = NewEasyStateDB /\ copy = NoStateDB

(***************************************************************************)
(* Bounds                                                                  *)
(***************************************************************************)
NonceSpan == 2      \* nonces 5 .. 5 + NonceSpan
MaxTxs == 3         \* a list holds at most MaxTxs transactions
NumTxs == 3         \* the pool is offered the transactions with hashes 1 .. NumTxs
MaxHeap == 4        \* Put is offered while the two heaps hold fewer than MaxHeap entries
MaxSlots == 6       \* Lookup.Add is offered while the slot counter is at most MaxSlots

Nonces == 5 .. (5 + NonceSpan)
Thresholds == 5 .. (5 + NonceSpan + 1)
PriceBumps == {0, 10}
Balances == {109, 500}
GasLimits == {1, 4}

\* price, gas limit and value of the transactions offered to a list
TxShapes ==
    { [price |-> 100, gas |-> 4, value |-> 0],
      [price |-> 109, gas |-> 1, value |-> 0],
      [price |-> 110, gas |-> 1, value |-> 0] }

MkTx(n, s) == [nonce |-> n, price |-> s.price, gas |-> s.gas, value |-> s.value]
ListTxs == { MkTx(n, s) : n \in Nonces, s \in TxShapes }
NoTx == [nonce |-> 0, price |-> 0, gas |-> 0, value |-> 0]

(***************************************************************************)
(* Helpers                                                                 *)
(***************************************************************************)
Min(S) == CHOOSE x \in S : \A y \in S : x <= y
Max(S) == CHOOSE x \in S : \A y \in S : x >= y
SeqSet(s) == { s[i] : i \in 1..Len(s) }
\* every order in which the elements of S can be visited once
RECURSIVE Orders(_)
Orders(S) == IF S = {} THEN {<<>>} ELSE UNION { { <<x>> \o o : o \in Orders(S \ {x}) } : x \in S }

\* a cost that charges the gas twice
CostGasTwice(tx) == 2 * tx.price * tx.gas + tx.value

\* Transaction.Cost for a normal transaction
Cost(tx) == tx.price * tx.gas + tx.value

RECURSIVE SumCostSeq(_)
SumCostSeq(s) == IF s = <<>> THEN 0 ELSE Cost(Head(s)) + SumCostSeq(Tail(s))

(***************************************************************************)
(* SortedMap                                                               *)
(***************************************************************************)
\* AVLTree.Smallest / AVLTree.Largest over the stored nonces (callers test emptiness: err != nil)
Smallest(m) == Min(DOMAIN m)
Largest(m) == Max(DOMAIN m)

\* delete(m.items, nonce); m.tree.Remove(nonce)
MapDelete(m, nonce) == [n \in (DOMAIN m) \ {nonce} |-> m[n]]

\* SortedMap.Put
MapPut(m, tx) == [n \in (DOMAIN m) \cup {tx.nonce} |-> IF n = tx.nonce THEN tx ELSE m[n]]

RECURSIVE ForwardLoop(_, _, _)
ForwardLoop(m, threshold, remove) ==
    IF DOMAIN m = {} THEN [m |-> m, txs |-> remove]
    ELSE LET nonce == Smallest(m) IN
         IF nonce > threshold THEN [m |-> m, txs |-> remove]
         ELSE ForwardLoop(MapDelete(m, nonce), threshold, Append(remove, m[nonce]))

\* SortedMap.Forward
MapForward(m, threshold) == ForwardLoop(m, threshold, <<>>)

\* a Cap loop that runs once more, down to threshold - 1 entries
RECURSIVE CapLoopOneMore(_, _, _, _)
CapLoopOneMore(m, size, threshold, remove) ==
    IF size >= threshold /\ DOMAIN m # {}
    THEN LET nonce == Largest(m) IN
         CapLoopOneMore(MapDelete(m, nonce), size - 1, threshold, Append(remove, m[nonce]))
    ELSE [m |-> m, txs |-> remove]

\* the loop of SortedMap.Cap
RECURSIVE CapLoop(_, _, _, _)
CapLoop(m, size, threshold, remove) ==
    IF size > threshold /\ DOMAIN m # {}
    THEN LET nonce == Largest(m) IN
         CapLoop(MapDelete(m, nonce), size - 1, threshold, Append(remove, m[nonce]))
    ELSE [m |-> m, txs |-> remove]

\* SortedMap.Cap
MapCap(m, threshold) ==
    IF Cardinality(DOMAIN m) <= threshold THEN [m |-> m, txs |-> <<>>]
    ELSE CapLoop(m, Cardinality(DOMAIN m), threshold, <<>>)

\* a Remove that reports the entry found and leaves it in the map
MapRemoveKeep(m, nonce) == [ok |-> nonce \in DOMAIN m, m |-> m]

\* SortedMap.Remove
MapRemove(m, nonce) ==
    IF nonce \notin DOMAIN m THEN [m |-> m, ok |-> FALSE]
    ELSE [m |-> MapDelete(m, nonce), ok |-> TRUE]

\* a Ready loop that does not stop at a nonce gap
RECURSIVE ReadyLoopNoGap(_, _, _, _, _, _, _)
ReadyLoopNoGap(m, next, smallest, total, size, threshold, ready) ==
    IF size > 0 /\ total <= threshold
    THEN LET m2 == MapDelete(m, smallest)
             ready2 == Append(ready, m[smallest])
         IN IF DOMAIN m2 = {} THEN [m |-> m2, txs |-> ready2]
            ELSE LET s2 == Smallest(m2) IN
                 ReadyLoopNoGap(m2, next + 1, s2, total + Cost(m2[s2]), size - 1, threshold, ready2)
    ELSE [m |-> m, txs |-> ready]

RECURSIVE ReadyLoop(_, _, _, _, _, _, _)
ReadyLoop(m, next, smallest, total, size, threshold, ready) ==
    IF size > 0 /\ smallest = next /\ total <= threshold
    THEN LET m2 == MapDelete(m, smallest)
             ready2 == Append(ready, m[next])
         IN IF DOMAIN m2 = {} THEN [m |-> m2, txs |-> ready2]
            ELSE LET s2 == Smallest(m2) IN
                 ReadyLoop(m2, next + 1, s2, total + Cost(m2[s2]), size - 1, threshold, ready2)
    ELSE [m |-> m, txs |-> ready]

\* SortedMap.Ready
MapReady(m, start, threshold) ==
    IF Cardinality(DOMAIN m) = 0 THEN [m |-> m, txs |-> <<>>]
    ELSE LET smallest == Smallest(m) IN
         IF smallest > start THEN [m |-> m, txs |-> <<>>]
         ELSE ReadyLoop(m, smallest, smallest, Cost(m[smallest]),
                        Cardinality(DOMAIN m), threshold, <<>>)

\* a filter that returns the matches and leaves them in the map
MapFilterKeepAll(m, hit) == m

\* SortedMap.Filter, given the set hit of stored nonces whose transaction satisfies the
\* predicate: the map it leaves
MapFilter(m, hit) == [n \in (DOMAIN m) \ hit |-> m[n]]
\* SortedMap.Filter: its possible return values, one per order in which the map is ranged over
FilterResults(m, hit) == { [i \in 1..Len(o) |-> m[o[i]]] : o \in Orders(hit) }

(***************************************************************************)
(* list                                                                    *)
(***************************************************************************)
\* list.subTotalCost
SubTotalCost(total, txs) == total - SumCostSeq(txs)

Call(name, tx, a, b) == [name |-> name, tx |-> tx, a |-> a, b |-> b]
Result(ok, txs, invalids) == [ok |-> ok, txs |-> txs, invalids |-> invalids]

\* a replacement threshold that leaves the price bump out
ThresholdFeeCapNoBump(old, priceBump) == old.price

\* the replacement threshold of list.Add
ThresholdFeeCap(old, priceBump) == ((100 + priceBump) * old.price) \div 100

\* a cap update that never raises the cap
RaiseCapNever(cap, v) == cap

\* list.Add, the cap updates: if cap < v { cap = v }
RaiseCap(cap, v) == IF cap < v THEN v ELSE cap

\* an Add that leaves out the test that the old price is not below the new one
ListAddNoPriceCheck(tx, priceBump) ==
    /\ op' = Call("Add", tx, priceBump, 0)
    /\ LET has == tx.nonce \in DOMAIN items
           old == IF has THEN items[tx.nonce] ELSE NoTx
       IN IF has /\ tx.price < ThresholdFeeCap(old, priceBump)
          THEN /\ ret' = Result(FALSE, <<>>, <<>>)
               /\ UNCHANGED listVars
          ELSE /\ totalcost' = (IF has THEN SubTotalCost(totalcost, <<old>>) ELSE totalcost) + Cost(tx)
               /\ items' = MapPut(items, tx)
               /\ costcap' = RaiseCap(costcap, Cost(tx))
               /\ gascap' = RaiseCap(gascap, tx.gas)
               /\ ret' = Result(TRUE, IF has THEN <<old>> ELSE <<>>, <<>>)
               /\ UNCHANGED strict

\* list.Add
ListAdd(tx, priceBump) ==
    /\ op' = Call("Add", tx, priceBump, 0)
    /\ LET has == tx.nonce \in DOMAIN items
           old == IF has THEN items[tx.nonce] ELSE NoTx
       IN IF has /\ old.price >= tx.price
          THEN /\ ret' = Result(FALSE, <<>>, <<>>)
               /\ UNCHANGED listVars
          ELSE IF has /\ tx.price < ThresholdFeeCap(old, priceBump)
          THEN /\ ret' = Result(FALSE, <<>>, <<>>)
               /\ UNCHANGED listVars
          ELSE /\ totalcost' = (IF has THEN SubTotalCost(totalcost, <<old>>) ELSE totalcost) + Cost(tx)
               /\ items' = MapPut(items, tx)
               /\ costcap' = RaiseCap(costcap, Cost(tx))
               /\ gascap' = RaiseCap(gascap, tx.gas)
               /\ ret' = Result(TRUE, IF has THEN <<old>> ELSE <<>>, <<>>)
               /\ UNCHANGED strict

\* list.Forward
ListForward(threshold) ==
    LET r == MapForward(items, threshold) IN
    /\ op' = Call("Forward", NoTx, threshold, 0)
    /\ items' = r.m
    /\ totalcost' = SubTotalCost(totalcost, r.txs)
    /\ ret' = Result(TRUE, r.txs, <<>>)
    /\ UNCHANGED <<strict, costcap, gascap>>

\* list.Cap
ListCap(threshold) ==
    LET r == MapCap(items, threshold) IN
    /\ op' = Call("Cap", NoTx, threshold, 0)
    /\ items' = r.m
    /\ totalcost' = SubTotalCost(totalcost, r.txs)
    /\ ret' = Result(TRUE, r.txs, <<>>)
    /\ UNCHANGED <<strict, costcap, gascap>>

\* list.Ready
ListReady(start, balance) ==
    LET r == MapReady(items, start, balance) IN
    /\ op' = Call("Ready", NoTx, start, balance)
    /\ items' = r.m
    /\ totalcost' = SubTotalCost(totalcost, r.txs)
    /\ ret' = Result(TRUE, r.txs, <<>>)
    /\ UNCHANGED <<strict, costcap, gascap>>

\* a filter predicate that leaves the gas limit out
OverLimitCostOnly(tx, costLimit, gasLimit) == Cost(tx) > costLimit

\* list.Filter, the predicate handed to txs.Filter
OverLimit(tx, costLimit, gasLimit) == tx.gas > gasLimit \/ Cost(tx) > costLimit

\* list.Filter, the nonces its predicate selects
OverKeys(m, costLimit, gasLimit) == { n \in DOMAIN m : OverLimit(m[n], costLimit, gasLimit) }

\* a strict mode that invalidates nothing above a removed nonce
AboveKeysNone(m, nonce) == {}

\* list.Filter and list.Remove in strict mode, the nonces above a removed nonce
AboveKeys(m, nonce) == { n \in DOMAIN m : m[n].nonce > nonce }

\* list.Filter
ListFilter(costLimit, gasLimit) ==
    /\ op' = Call("Filter", NoTx, costLimit, gasLimit)
    /\ IF costcap <= costLimit /\ gascap <= gasLimit
       THEN /\ ret' = Result(TRUE, <<>>, <<>>)
            /\ UNCHANGED listVars
       ELSE LET over == OverKeys(items, costLimit, gasLimit)
                m1 == MapFilter(items, over)
            IN /\ costcap' = costLimit
               /\ gascap' = gasLimit
               /\ UNCHANGED strict
               /\ IF over = {}
                  THEN /\ ret' = Result(TRUE, <<>>, <<>>)
                       /\ UNCHANGED <<items, totalcost>>
                  ELSE \E removed \in FilterResults(items, over) :
                       LET lowest == Min({ removed[i].nonce : i \in 1..Len(removed) })
                           above == IF strict THEN AboveKeys(m1, lowest) ELSE {}
                       IN \E invalids \in FilterResults(m1, above) :
                          /\ items' = MapFilter(m1, above)
                          /\ totalcost' = SubTotalCost(SubTotalCost(totalcost, removed), invalids)
                          /\ ret' = Result(TRUE, removed, invalids)

\* list.Remove
ListRemove(tx) ==
    LET r == MapRemove(items, tx.nonce)
        above == AboveKeys(r.m, tx.nonce)
    IN /\ op' = Call("Remove", tx, 0, 0)
       /\ IF ~r.ok
          THEN /\ ret' = Result(FALSE, <<>>, <<>>)
               /\ UNCHANGED listVars
          ELSE IF strict
          THEN \E txs \in FilterResults(r.m, above) :
               /\ items' = MapFilter(r.m, above)
               /\ totalcost' = SubTotalCost(SubTotalCost(totalcost, <<tx>>), txs)
               /\ ret' = Result(TRUE, txs, <<>>)
               /\ UNCHANGED <<strict, costcap, gascap>>
          ELSE /\ items' = r.m
               /\ totalcost' = SubTotalCost(totalcost, <<tx>>)
               /\ ret' = Result(TRUE, <<>>, <<>>)
               /\ UNCHANGED <<strict, costcap, gascap>>

\* newList, for either mode
ListInit ==
    /\ strict \in BOOLEAN
    /\ items = <<>>
    /\ costcap = 0
    /\ gascap = 0
    /\ totalcost = 0
    /\ slots = 0 /\ locals = {} /\ remotes = {}
    /\ RestInit
    /\ stales = 0 /\ urgent = <<>> /\ floating = <<>> /\ baseFee = 0
    /\ op = Call("new", NoTx, 0, 0)
    /\ ret = Result(TRUE, <<>>, <<>>)

AddStep ==
    /\ \E tx \in ListTxs, priceBump \in PriceBumps :
          /\ (tx.nonce \in DOMAIN items \/ Cardinality(DOMAIN items) < MaxTxs)
          /\ ListAdd(tx, priceBump)
    /\ UNCHANGED <<lookupVars, pricedVars, restVars>>

ForwardStep ==
    /\ \E threshold \in Thresholds : ListForward(threshold)
    /\ UNCHANGED <<lookupVars, pricedVars, restVars>>

CapStep ==
    /\ \E threshold \in 0..MaxTxs : ListCap(threshold)
    /\ UNCHANGED <<lookupVars, pricedVars, restVars>>

ReadyStep ==
    /\ \E start \in Nonces, balance \in Balances : ListReady(start, balance)
    /\ UNCHANGED <<lookupVars, pricedVars, restVars>>

FilterStep ==
    /\ \E costLimit \in Balances, gasLimit \in GasLimits : ListFilter(costLimit, gasLimit)
    /\ UNCHANGED <<lookupVars, pricedVars, restVars>>

\* the pool removes a transaction it has stored in the list, or one the list does not hold
RemoveStep ==
    /\ \E tx \in ListTxs :
          /\ tx.nonce \in DOMAIN items => items[tx.nonce] = tx
          /\ ListRemove(tx)
    /\ UNCHANGED <<lookupVars, pricedVars, restVars>>

ListNext == AddStep \/ ForwardStep \/ CapStep \/ ReadyStep \/ FilterStep \/ RemoveStep

SpecList == ListInit /\ [][ListNext]_vars


(***************************************************************************)
(* The list with Remove called for any transaction: nothing in the         *)
(* repository calls list.Remove, so the transaction handed to it need not  *)
(* be the one the list stores under that nonce                             *)
(***************************************************************************)
\* the sum of the costs of the stored transactions
RECURSIVE SumCostOver(_, _)
SumCostOver(m, S) ==
    IF S = {} THEN 0
    ELSE LET n == CHOOSE k \in S : TRUE IN Cost(m[n]) + SumCostOver(m, S \ {n})
StoredCost == SumCostOver(items, DOMAIN items)

\* list.Remove with any transaction; a transaction that differs from the stored one is
\* handed in only while totalcost still matches the stored costs, which bounds the drift
RemoveAnyStep ==
    /\ \E tx \in ListTxs :
          /\ (tx.nonce \in DOMAIN items /\ items[tx.nonce] # tx) => totalcost = StoredCost
          /\ ListRemove(tx)
    /\ UNCHANGED <<lookupVars, pricedVars, restVars>>

ListAnyNext == AddStep \/ ForwardStep \/ FilterStep \/ CapStep \/ RemoveAnyStep

SpecListAny == ListInit /\ [][ListAnyNext]_vars

(***************************************************************************)
(* The promote step on one account's queue                                 *)
(***************************************************************************)
\* the account's nonce in the state
StateNonce == 5
QueueNonces == StateNonce .. (StateNonce + NonceSpan + 1)
QueueTxs == { MkTx(n, s) : n \in QueueNonces, s \in TxShapes }

\* promote on the queue: Forward(state nonce), then Ready(state nonce, balance); txs are
\* the transactions handed to pending, invalids the ones Forward dropped as stale
Promote(nonce, balance) ==
    LET f == MapForward(items, nonce)
        r == MapReady(f.m, nonce, balance)
    IN /\ op' = Call("Promote", NoTx, nonce, balance)
       /\ items' = r.m
       /\ totalcost' = SubTotalCost(SubTotalCost(totalcost, f.txs), r.txs)
       /\ ret' = Result(TRUE, r.txs, f.txs)
       /\ UNCHANGED <<strict, costcap, gascap>>

\* newList(false)
QueueInit ==
    /\ strict = FALSE
    /\ items = <<>>
    /\ costcap = 0
    /\ gascap = 0
    /\ totalcost = 0
    /\ slots = 0 /\ locals = {} /\ remotes = {}
    /\ RestInit
    /\ stales = 0 /\ urgent = <<>> /\ floating = <<>> /\ baseFee = 0
    /\ op = Call("new", NoTx, 0, 0)
    /\ ret = Result(TRUE, <<>>, <<>>)

QueueAddStep ==
    /\ \E tx \in QueueTxs, priceBump \in PriceBumps :
          /\ (tx.nonce \in DOMAIN items \/ Cardinality(DOMAIN items) < MaxTxs)
          /\ ListAdd(tx, priceBump)
    /\ UNCHANGED <<lookupVars, pricedVars, restVars>>

PromoteStep ==
    /\ \E balance \in Balances : Promote(StateNonce, balance)
    /\ UNCHANGED <<lookupVars, pricedVars, restVars>>

QueueNext == QueueAddStep \/ PromoteStep

SpecQueue == QueueInit /\ [][QueueNext]_vars

(***************************************************************************)
(* Pooled transactions                                                     *)
(***************************************************************************)
txSlotSize == 32768

Hashes == 1..NumTxs
Senders == {"A", "B"}
ProbePrices == {40, 50, 60}
SlotsNeeded == 1..3

\* sender, nonce, price and serialized size of the transaction with hash h
TxFrom(h) == IF h % 4 \in {1, 2} THEN "A" ELSE "B"
TxNonce(h) == IF h % 2 = 1 THEN 0 ELSE 1
TxPrice(h) == IF h % 4 \in {1, 2} THEN 50 ELSE IF h % 4 = 3 THEN 60 ELSE 40
TxSize(h) == IF h % 4 = 2 THEN 40000 ELSE 200
PoolTx(h) == [hash |-> h, from |-> TxFrom(h), nonce |-> TxNonce(h), price |-> TxPrice(h), size |-> TxSize(h)]
\* a transaction that is offered to Underpriced and is not pooled
Probe(price) == [hash |-> 0, from |-> "B", nonce |-> 0, price |-> price, size |-> 200]

\* numSlots
numSlots(tx) == (tx.size + txSlotSize - 1) \div txSlotSize

RECURSIVE SumSlots(_)
SumSlots(S) == IF S = {} THEN 0 ELSE LET h == Min(S) IN numSlots(PoolTx(h)) + SumSlots(S \ {h})

(***************************************************************************)
(* priceHeap under container/heap                                          *)
(***************************************************************************)
\* a comparison with the order of the prices reversed
cmpReversed(a, b) == IF a.price > b.price THEN -1 ELSE IF a.price < b.price THEN 1 ELSE 0

\* priceHeap.cmp
cmp(a, b) == IF a.price < b.price THEN -1 ELSE IF a.price > b.price THEN 1 ELSE 0

\* a Less that breaks a price tie in favour of the lower nonce
LessTxLowNonce(a, b) ==
    IF cmp(a, b) = -1 THEN TRUE
    ELSE IF cmp(a, b) = 1 THEN FALSE
    ELSE a.nonce < b.nonce

\* priceHeap.Less on two transactions
LessTx(a, b) ==
    IF cmp(a, b) = -1 THEN TRUE
    ELSE IF cmp(a, b) = 1 THEN FALSE
    ELSE a.nonce > b.nonce

\* priceHeap.Less
Less(list, i, j) == LessTx(PoolTx(list[i]), PoolTx(list[j]))

\* priceHeap.Swap
Swap(list, i, j) == [list EXCEPT ![i] = list[j], ![j] = list[i]]

\* heap.up, on 1-based positions
RECURSIVE Up(_, _)
Up(list, j) ==
    IF j <= 1 THEN list
    ELSE LET i == j \div 2 IN
         IF ~Less(list, j, i) THEN list ELSE Up(Swap(list, i, j), i)

\* heap.down, on 1-based positions, over the first n entries
RECURSIVE Down(_, _, _)
Down(list, i, n) ==
    IF 2 * i > n THEN list
    ELSE LET j1 == 2 * i
             j == IF j1 + 1 <= n /\ Less(list, j1 + 1, j1) THEN j1 + 1 ELSE j1
         IN IF ~Less(list, j, i) THEN list ELSE Down(Swap(list, i, j), j, n)

\* heap.Push
HeapPush(list, x) == Up(Append(list, x), Len(list) + 1)

\* a Pop that hands out the top and leaves it in the heap
HeapPopPeek(list) == [list |-> list, x |-> list[1]]

\* heap.Pop: the popped entry x and the list that is left
HeapPop(list) ==
    LET n == Len(list)
        d == Down(Swap(list, 1, n), 1, n - 1)
    IN [list |-> SubSeq(d, 1, n - 1), x |-> d[n]]

RECURSIVE InitLoop(_, _, _)
InitLoop(list, i, n) == IF i < 1 THEN list ELSE InitLoop(Down(list, i, n), i - 1, n)

\* a heap.Init that leaves the slice as it is
HeapInitNone(list) == list

\* heap.Init
HeapInit(list) == InitLoop(list, Len(list) \div 2, Len(list))

RECURSIVE PushAll(_, _)
PushAll(list, xs) == IF xs = <<>> THEN list ELSE PushAll(HeapPush(list, Head(xs)), Tail(xs))

(***************************************************************************)
(* Lookup                                                                  *)
(***************************************************************************)
\* a liveness test that takes every heap entry for a stored remote
GetRemoteAlways(rem, h) == TRUE

\* Lookup.GetRemote(hash) != nil
GetRemote(rem, h) == h \in rem

\* Lookup.Add
LookupAdd(h, local) ==
    /\ slots' = slots + numSlots(PoolTx(h))
    /\ locals' = IF local THEN locals \cup {h} ELSE locals
    /\ remotes' = IF local THEN remotes ELSE remotes \cup {h}

\* a Remove that deletes the transaction and leaves the slots counter alone
LookupRemoveNoSlots(h) ==
    /\ slots' = slots
    /\ locals' = locals \ {h}
    /\ remotes' = remotes \ {h}

\* Lookup.Remove
LookupRemove(h) ==
    IF h \notin locals /\ h \notin remotes
    THEN UNCHANGED lookupVars
    ELSE /\ slots' = slots - numSlots(PoolTx(h))
         /\ locals' = locals \ {h}
         /\ remotes' = remotes \ {h}

\* Lookup.RemoteToLocals: the remotes it migrates
Migrating(set) == { h \in remotes : TxFrom(h) \in set }

\* Lookup.RemoteToLocals
LookupRemoteToLocals(set) ==
    /\ locals' = locals \cup Migrating(set)
    /\ remotes' = remotes \ Migrating(set)
    /\ UNCHANGED slots

(***************************************************************************)
(* PricedList                                                              *)
(***************************************************************************)
\* a call: its name, hash argument, numeric argument and boolean argument
PCall(name, h, n, flag) == [name |-> name, h |-> h, n |-> n, flag |-> flag]
\* what a call returned: its boolean, its transactions, and in n the migrated count
\* (RemoteToLocals) or the number of stale entries it popped (Underpriced, Discard)
PResult(ok, txs, n) == [ok |-> ok, txs |-> txs, n |-> n]

\* a Put that pushes nothing
PutNothing(list, h, local) == list

\* PricedList.Put: the urgent heap it leaves
Put(list, h, local) == IF local THEN list ELSE HeapPush(list, h)

\* a Reheap that moves half of the transactions into the floating heap
ReheapFromHalf(order) ==
    LET u0 == HeapInit(order)
        floatingCount == Len(u0) \div 2
        RECURSIVE Move(_, _, _)
        Move(u, f, k) == IF k = 0 THEN [urgent |-> u, floating |-> f]
                         ELSE LET p == HeapPop(u) IN Move(p.list, Append(f, p.x), k - 1)
        moved == Move(u0, <<>>, floatingCount)
    IN [urgent |-> moved.urgent, floating |-> HeapInit(moved.floating), stales |-> 0]

\* PricedList.Reheap: the heaps it builds when the remotes are ranged over in the given order
ReheapFrom(order) ==
    LET u0 == HeapInit(order)
        floatingCount == (Len(u0) * 1) \div (4 + 1)
        RECURSIVE Move(_, _, _)
        Move(u, f, k) == IF k = 0 THEN [urgent |-> u, floating |-> f]
                         ELSE LET p == HeapPop(u) IN Move(p.list, Append(f, p.x), k - 1)
        moved == Move(u0, <<>>, floatingCount)
    IN [urgent |-> moved.urgent, floating |-> HeapInit(moved.floating), stales |-> 0]

\* PricedList.Reheap: every outcome the map iteration order allows
ReheapResults(rem) == { ReheapFrom(order) : order \in Orders(rem) }

\* a Removed that also reheaps when the counter has just reached the quarter
NeedsReheapAtQuarter(st, u, f) == ~(st < (Len(u) + Len(f)) \div 4)

\* PricedList.Removed: whether the bumped counter triggers a reheap
NeedsReheap(st, u, f) == ~(st <= (Len(u) + Len(f)) \div 4)

\* a loop that pops the head whether it is stale or not
DropAnyHead(list, st, rem) ==
    IF Len(list) > 0 THEN [list |-> HeapPop(list).list, stales |-> st - 1]
    ELSE [list |-> list, stales |-> st]

\* PricedList.underpricedFor, the loop that discards stale heads
RECURSIVE DropStaleHeads(_, _, _)
DropStaleHeads(list, st, rem) ==
    IF Len(list) > 0 /\ ~GetRemote(rem, list[1])
    THEN DropStaleHeads(HeapPop(list).list, st - 1, rem)
    ELSE [list |-> list, stales |-> st]

\* an underpricedFor that takes an equally priced transaction for better
underpricedForStrict(list, st, rem, tx) ==
    LET c == DropStaleHeads(list, st, rem) IN
    [list |-> c.list, stales |-> c.stales,
     res |-> IF Len(c.list) = 0 THEN FALSE ELSE cmp(PoolTx(c.list[1]), tx) > 0]

\* PricedList.underpricedFor
underpricedFor(list, st, rem, tx) ==
    LET c == DropStaleHeads(list, st, rem) IN
    [list |-> c.list, stales |-> c.stales,
     res |-> IF Len(c.list) = 0 THEN FALSE ELSE cmp(PoolTx(c.list[1]), tx) >= 0]

\* PricedList.Underpriced
Underpriced(u, f, st, rem, tx) ==
    LET a == underpricedFor(u, st, rem, tx) IN
    IF ~(a.res \/ Len(a.list) = 0)
    THEN [urgent |-> a.list, floating |-> f, stales |-> a.stales, res |-> FALSE]
    ELSE LET b == underpricedFor(f, a.stales, rem, tx) IN
         [urgent |-> a.list, floating |-> b.list, stales |-> b.stales,
          res |-> /\ (b.res \/ Len(b.list) = 0)
                  /\ (Len(a.list) # 0 \/ Len(b.list) # 0)]

\* PricedList.Discard, the eviction loop
RECURSIVE DiscardLoop(_, _, _, _, _, _)
DiscardLoop(u, f, st, rem, n, drop) ==
    IF ~(n > 0) THEN [urgent |-> u, floating |-> f, stales |-> st, slots |-> n, drop |-> drop]
    ELSE IF Len(u) * 1 > Len(f) * 4
    THEN LET p == HeapPop(u) IN
         IF ~GetRemote(rem, p.x)
         THEN DiscardLoop(p.list, f, st - 1, rem, n, drop)
         ELSE DiscardLoop(p.list, HeapPush(f, p.x), st, rem, n, drop)
    ELSE IF Len(f) = 0
    THEN [urgent |-> u, floating |-> f, stales |-> st, slots |-> n, drop |-> drop]
    ELSE LET p == HeapPop(f) IN
         IF ~GetRemote(rem, p.x)
         THEN DiscardLoop(u, p.list, st - 1, rem, n, drop)
         ELSE DiscardLoop(u, p.list, st, rem, n - numSlots(PoolTx(p.x)), Append(drop, p.x))

\* a Discard that does not push the drops back when it fails
DiscardNoPushBack(u, f, st, rem, n, force) ==
    LET r == DiscardLoop(u, f, st, rem, n, <<>>) IN
    IF r.slots > 0 /\ ~force
    THEN [urgent |-> r.urgent, floating |-> r.floating, stales |-> r.stales,
          drop |-> <<>>, ok |-> FALSE]
    ELSE [urgent |-> r.urgent, floating |-> r.floating, stales |-> r.stales,
          drop |-> r.drop, ok |-> TRUE]

\* PricedList.Discard
Discard(u, f, st, rem, n, force) ==
    LET r == DiscardLoop(u, f, st, rem, n, <<>>) IN
    IF r.slots > 0 /\ ~force
    THEN [urgent |-> PushAll(r.urgent, r.drop), floating |-> r.floating, stales |-> r.stales,
          drop |-> <<>>, ok |-> FALSE]
    ELSE [urgent |-> r.urgent, floating |-> r.floating, stales |-> r.stales,
          drop |-> r.drop, ok |-> TRUE]

(***************************************************************************)
(* The pool's calls on Lookup and PricedList                               *)
(***************************************************************************)
\* a successful Discard whose drops the pool has still to remove from the Lookup
PendingDrop == op.name = "Discard" /\ ret.ok /\ ret.txs # <<>>

\* NewLookup, NewPricedList
PoolInit ==
    /\ slots = 0 /\ locals = {} /\ remotes = {}
    /\ RestInit
    /\ stales = 0 /\ urgent = <<>> /\ floating = <<>> /\ baseFee = 0
    /\ strict = FALSE /\ items = <<>> /\ costcap = 0 /\ gascap = 0 /\ totalcost = 0
    /\ op = PCall("new", 0, 0, FALSE)
    /\ ret = PResult(TRUE, <<>>, 0)

\* Lookup.Add followed by PricedList.Put, for a hash the pool does not know yet
PoolAddStep ==
    /\ ~PendingDrop
    /\ \E h \in Hashes, local \in BOOLEAN :
          /\ h \notin locals /\ h \notin remotes
          /\ local \/ Len(urgent) + Len(floating) < MaxHeap
          /\ LookupAdd(h, local)
          /\ urgent' = Put(urgent, h, local)
          /\ op' = PCall("Add", h, 0, local)
          /\ ret' = PResult(TRUE, <<>>, 0)
    /\ UNCHANGED <<floating, stales, baseFee, listVars, restVars>>

\* Lookup.Remove followed, when the hash was stored, by PricedList.Removed(1)
PoolRemoveStep ==
    /\ ~PendingDrop
    /\ \E h \in Hashes :
          /\ LookupRemove(h)
          /\ op' = PCall("Remove", h, 0, FALSE)
          /\ IF h \in locals \/ h \in remotes
             THEN IF NeedsReheap(stales + 1, urgent, floating)
                  THEN \E r \in ReheapResults(remotes') :
                          /\ urgent' = r.urgent /\ floating' = r.floating /\ stales' = r.stales
                          /\ ret' = PResult(TRUE, <<>>, 1)
                  ELSE /\ stales' = stales + 1
                       /\ ret' = PResult(TRUE, <<>>, 0)
                       /\ UNCHANGED <<urgent, floating>>
             ELSE /\ ret' = PResult(FALSE, <<>>, 0)
                  /\ UNCHANGED <<stales, urgent, floating>>
    /\ UNCHANGED <<baseFee, listVars, restVars>>

\* Lookup.RemoteToLocals
RemoteToLocalsStep ==
    /\ ~PendingDrop
    /\ \E set \in SUBSET Senders :
          /\ LookupRemoteToLocals(set)
          /\ op' = [name |-> "RemoteToLocals", h |-> 0, n |-> 0, flag |-> FALSE, set |-> set]
          /\ ret' = PResult(TRUE, <<>>, Cardinality(Migrating(set)))
    /\ UNCHANGED <<pricedVars, listVars, restVars>>

\* PricedList.Underpriced
UnderpricedStep ==
    /\ ~PendingDrop
    /\ \E price \in ProbePrices :
          LET r == Underpriced(urgent, floating, stales, remotes, Probe(price)) IN
          /\ urgent' = r.urgent /\ floating' = r.floating /\ stales' = r.stales
          /\ op' = PCall("Underpriced", 0, price, FALSE)
          /\ ret' = PResult(r.res, <<>>, stales - r.stales)
    /\ UNCHANGED <<lookupVars, baseFee, listVars, restVars>>

\* PricedList.Discard
DiscardStep ==
    /\ ~PendingDrop
    /\ \E n \in SlotsNeeded, force \in BOOLEAN :
          LET r == Discard(urgent, floating, stales, remotes, n, force) IN
          /\ urgent' = r.urgent /\ floating' = r.floating /\ stales' = r.stales
          /\ op' = PCall("Discard", 0, n, force)
          /\ ret' = PResult(r.ok, r.drop, stales - r.stales)
    /\ UNCHANGED <<lookupVars, baseFee, listVars, restVars>>

\* the pool removes the transactions Discard returned from the Lookup
EvictStep ==
    /\ PendingDrop
    /\ slots' = slots - SumSlots(SeqSet(ret.txs) \cap (locals \cup remotes))
    /\ locals' = locals \ SeqSet(ret.txs)
    /\ remotes' = remotes \ SeqSet(ret.txs)
    /\ op' = PCall("Evict", 0, 0, FALSE)
    /\ ret' = PResult(TRUE, <<>>, 0)
    /\ UNCHANGED <<pricedVars, listVars, restVars>>

\* PricedList.Reheap
ReheapStep ==
    /\ ~PendingDrop
    /\ \E r \in ReheapResults(remotes) :
          /\ urgent' = r.urgent /\ floating' = r.floating /\ stales' = r.stales
    /\ op' = PCall("Reheap", 0, 0, FALSE)
    /\ ret' = PResult(TRUE, <<>>, 0)
    /\ UNCHANGED <<lookupVars, baseFee, listVars, restVars>>

PoolNext ==
    \/ PoolAddStep \/ PoolRemoveStep \/ RemoteToLocalsStep \/ UnderpricedStep
    \/ DiscardStep \/ EvictStep \/ ReheapStep

SpecPool == PoolInit /\ [][PoolNext]_vars

(***************************************************************************)
(* The Lookup alone, under any sequence of its mutators                    *)
(***************************************************************************)
LookupAddStep ==
    /\ slots <= MaxSlots
    /\ \E h \in Hashes, local \in BOOLEAN :
          /\ LookupAdd(h, local)
          /\ op' = PCall("Add", h, 0, local)
    /\ ret' = PResult(TRUE, <<>>, 0)
    /\ UNCHANGED <<pricedVars, listVars, restVars>>

LookupRemoveStep ==
    /\ \E h \in Hashes :
          /\ LookupRemove(h)
          /\ op' = PCall("Remove", h, 0, FALSE)
          /\ ret' = PResult(h \in locals \/ h \in remotes, <<>>, 0)
    /\ UNCHANGED <<pricedVars, listVars, restVars>>

LookupNext == LookupAddStep \/ LookupRemoveStep \/ RemoteToLocalsStep

SpecLookup == PoolInit /\ [][LookupNext]_vars

(***************************************************************************)
(* accountSet                                                              *)
(***************************************************************************)
Addresses == Senders \cup {"C"}

\* a call on the account set: its name, its address argument, its transaction argument,
\* its set argument, and whether a cache was set when it was made
SCall(name, addr, h, other) ==
    [name |-> name, addr |-> addr, h |-> h, other |-> other, cached |-> ~cache.nil]

\* an add that leaves the cache as it is
addKeepsCache(addr) ==
    /\ accounts' = accounts \cup {addr}
    /\ UNCHANGED cache

\* accountSet.add
add(addr) ==
    /\ accounts' = accounts \cup {addr}
    /\ cache' = NilCache

\* accountSet.addTx
addTx(h) == add(TxFrom(h))

\* accountSet.merge
merge(other) ==
    /\ accounts' = accounts \cup other
    /\ cache' = NilCache

\* accountSet.flatten: the cache it leaves and the list it returns; a missing cache is
\* built by ranging over the map, in any order
flatten ==
    IF cache.nil
    THEN \E order \in Orders(accounts) :
            /\ cache' = CacheOf(order)
            /\ ret' = [ok |-> TRUE, list |-> order]
    ELSE /\ UNCHANGED cache
         /\ ret' = [ok |-> TRUE, list |-> cache.list]

AccountSetInit ==
    /\ slots = 0 /\ locals = {} /\ remotes = {}
    /\ RestInit
    /\ stales = 0 /\ urgent = <<>> /\ floating = <<>> /\ baseFee = 0
    /\ strict = FALSE /\ items = <<>> /\ costcap = 0 /\ gascap = 0 /\ totalcost = 0
    /\ op = [name |-> "newAccountSet", addr |-> "", h |-> 0, other |-> {}, cached |-> FALSE]
    /\ ret = [ok |-> TRUE, list |-> <<>>]

AccountAddStep ==
    /\ \E addr \in Addresses :
          /\ add(addr)
          /\ op' = SCall("add", addr, 0, {})
    /\ ret' = [ok |-> TRUE, list |-> <<>>]
    /\ UNCHANGED <<stateVars, threadVars, raceVars, discarding, lookupVars, pricedVars, listVars>>

AccountAddTxStep ==
    /\ \E h \in Hashes :
          /\ addTx(h)
          /\ op' = SCall("addTx", "", h, {})
    /\ ret' = [ok |-> TRUE, list |-> <<>>]
    /\ UNCHANGED <<stateVars, threadVars, raceVars, discarding, lookupVars, pricedVars, listVars>>

AccountMergeStep ==
    /\ \E other \in SUBSET Addresses :
          /\ merge(other)
          /\ op' = SCall("merge", "", 0, other)
    /\ ret' = [ok |-> TRUE, list |-> <<>>]
    /\ UNCHANGED <<stateVars, threadVars, raceVars, discarding, lookupVars, pricedVars, listVars>>

\* flatten; op.cached tells whether the call before it dropped a cache
AccountFlattenStep ==
    /\ flatten
    /\ op' = [name |-> "flatten", addr |-> "", h |-> 0, other |-> {},
              cached |-> op.name \in {"add", "addTx", "merge"} /\ op.cached]
    /\ UNCHANGED <<stateVars, accounts, threadVars, raceVars, discarding, lookupVars, pricedVars, listVars>>

\* accountSet.contains
AccountContainsStep ==
    /\ \E addr \in Addresses :
          /\ op' = SCall("contains", addr, 0, {})
          /\ ret' = [ok |-> addr \in accounts, list |-> <<>>]
    /\ UNCHANGED <<stateVars, setVars, threadVars, raceVars, discarding, lookupVars, pricedVars, listVars>>

AccountSetNext ==
    \/ AccountAddStep \/ AccountAddTxStep \/ AccountMergeStep
    \/ AccountFlattenStep \/ AccountContainsStep

SpecAccountSet == AccountSetInit /\ [][AccountSetNext]_vars

(***************************************************************************)
(* Lookup under concurrent access: one goroutine mutates it, statement by  *)
(* statement, while another reads it; both go through Lookup.lock          *)
(***************************************************************************)
\* t.lock.Lock() by the writer: no other holder
CanLock == ~lock.w /\ lock.r = 0
\* t.lock.RLock() by the reader: no writer holds the lock
CanRLock == ~lock.w

\* Lookup.Add, lines 184-185: the lock is taken
AddLockStep ==
    /\ writer.pc = "idle" /\ CanLock
    /\ slots <= MaxSlots
    /\ \E h \in Hashes, local \in BOOLEAN :
          writer' = [IdleWriter EXCEPT !.pc = "Add.slots", !.name = "Add", !.h = h, !.local = local]
    /\ lock' = [lock EXCEPT !.w = TRUE]
    /\ UNCHANGED <<stateVars, reader, setVars, raceVars, discarding, lookupVars, pricedVars, listVars, op, ret>>

\* Lookup.Add, line 187
AddSlotsStep ==
    /\ writer.pc = "Add.slots"
    /\ slots' = slots + numSlots(PoolTx(writer.h))
    /\ writer' = [writer EXCEPT !.pc = "Add.store"]
    /\ UNCHANGED <<stateVars, locals, remotes, lock, reader, setVars, raceVars, discarding, pricedVars, listVars, op, ret>>

\* Lookup.Add, lines 190-194
AddStoreStep ==
    /\ writer.pc = "Add.store"
    /\ IF writer.local
       THEN locals' = locals \cup {writer.h} /\ UNCHANGED remotes
       ELSE remotes' = remotes \cup {writer.h} /\ UNCHANGED locals
    /\ writer' = [writer EXCEPT !.pc = "unlock"]
    /\ UNCHANGED <<stateVars, slots, lock, reader, setVars, raceVars, discarding, pricedVars, listVars, op, ret>>

\* Lookup.Remove, lines 199-200
RemoveLockStep ==
    /\ writer.pc = "idle" /\ CanLock
    /\ \E h \in Hashes :
          writer' = [IdleWriter EXCEPT !.pc = "Remove.find", !.name = "Remove", !.h = h]
    /\ lock' = [lock EXCEPT !.w = TRUE]
    /\ UNCHANGED <<stateVars, reader, setVars, raceVars, discarding, lookupVars, pricedVars, listVars, op, ret>>

\* Lookup.Remove, lines 202-209
RemoveFindStep ==
    /\ writer.pc = "Remove.find"
    /\ LET ok == writer.h \in locals \/ writer.h \in remotes IN
       writer' = [writer EXCEPT !.found = ok, !.pc = IF ok THEN "Remove.slots" ELSE "unlock"]
    /\ UNCHANGED <<stateVars, lock, reader, setVars, raceVars, discarding, lookupVars, pricedVars, listVars, op, ret>>

\* Lookup.Remove, line 210
RemoveSlotsStep ==
    /\ writer.pc = "Remove.slots"
    /\ slots' = slots - numSlots(PoolTx(writer.h))
    /\ writer' = [writer EXCEPT !.pc = "Remove.locals"]
    /\ UNCHANGED <<stateVars, locals, remotes, lock, reader, setVars, raceVars, discarding, pricedVars, listVars, op, ret>>

\* Lookup.Remove, line 213
RemoveLocalsStep ==
    /\ writer.pc = "Remove.locals"
    /\ locals' = locals \ {writer.h}
    /\ writer' = [writer EXCEPT !.pc = "Remove.remotes"]
    /\ UNCHANGED <<stateVars, slots, remotes, lock, reader, setVars, raceVars, discarding, pricedVars, listVars, op, ret>>

\* Lookup.Remove, line 214
RemoveRemotesStep ==
    /\ writer.pc = "Remove.remotes"
    /\ remotes' = remotes \ {writer.h}
    /\ writer' = [writer EXCEPT !.pc = "unlock"]
    /\ UNCHANGED <<stateVars, slots, locals, lock, reader, setVars, raceVars, discarding, pricedVars, listVars, op, ret>>

\* Lookup.RemoteToLocals, lines 220-224: the lock is taken and the range over remotes
\* starts, in any order
MigrateLockStep ==
    /\ writer.pc = "idle" /\ CanLock
    /\ \E set \in SUBSET Senders, order \in Orders(remotes) :
          writer' = [IdleWriter EXCEPT !.pc = "Migrate.next", !.name = "RemoteToLocals",
                                       !.set = set, !.todo = order]
    /\ lock' = [lock EXCEPT !.w = TRUE]
    /\ UNCHANGED <<stateVars, reader, setVars, raceVars, discarding, lookupVars, pricedVars, listVars, op, ret>>

\* Lookup.RemoteToLocals, lines 224-225: the next remote and the test of its sender
MigrateNextStep ==
    /\ writer.pc = "Migrate.next"
    /\ writer' = IF writer.todo = <<>> THEN [writer EXCEPT !.pc = "unlock"]
                 ELSE IF TxFrom(Head(writer.todo)) \in writer.set
                      THEN [writer EXCEPT !.pc = "Migrate.store"]
                      ELSE [writer EXCEPT !.todo = Tail(@)]
    /\ UNCHANGED <<stateVars, lock, reader, setVars, raceVars, discarding, lookupVars, pricedVars, listVars, op, ret>>

\* Lookup.RemoteToLocals, line 226
MigrateStoreStep ==
    /\ writer.pc = "Migrate.store"
    /\ locals' = locals \cup {Head(writer.todo)}
    /\ writer' = [writer EXCEPT !.pc = "Migrate.delete"]
    /\ UNCHANGED <<stateVars, slots, remotes, lock, reader, setVars, raceVars, discarding, pricedVars, listVars, op, ret>>

\* Lookup.RemoteToLocals, lines 227-228
MigrateDeleteStep ==
    /\ writer.pc = "Migrate.delete"
    /\ remotes' = remotes \ {Head(writer.todo)}
    /\ writer' = [writer EXCEPT !.pc = "Migrate.next", !.todo = Tail(@), !.migrated = @ + 1]
    /\ UNCHANGED <<stateVars, slots, locals, lock, reader, setVars, raceVars, discarding, pricedVars, listVars, op, ret>>

\* the deferred t.lock.Unlock() and the return of Add, Remove or RemoteToLocals
UnlockStep ==
    /\ writer.pc = "unlock"
    /\ lock' = [lock EXCEPT !.w = FALSE]
    /\ op' = [name |-> writer.name, h |-> writer.h, n |-> 0, flag |-> writer.local,
              set |-> writer.set]
    /\ ret' = PResult(writer.name # "Remove" \/ writer.found, <<>>, writer.migrated)
    /\ writer' = IdleWriter
    /\ UNCHANGED <<stateVars, reader, setVars, raceVars, discarding, lookupVars, pricedVars, listVars>>

\* the reads of the Lookup, each under t.lock.RLock()
ReaderCalls ==
    { [IdleReader EXCEPT !.name = name, !.h = h] :
        name \in {"Get", "GetLocal", "GetRemote"}, h \in Hashes }
    \cup { [IdleReader EXCEPT !.name = name] : name \in {"Count", "Slots"} }
    \cup { [IdleReader EXCEPT !.name = "Range", !.local = l, !.remote = r] :
             l \in BOOLEAN, r \in BOOLEAN }

\* t.lock.RLock() at the start of Get, GetLocal, GetRemote, Count, Slots or Range
RLockStep ==
    /\ reader.pc = "idle" /\ CanRLock
    /\ \E call \in ReaderCalls : reader' = [call EXCEPT !.pc = "locked"]
    /\ lock' = [lock EXCEPT !.r = @ + 1]
    /\ UNCHANGED <<stateVars, writer, setVars, raceVars, discarding, lookupVars, pricedVars, listVars, op, ret>>

\* what a read returns from the maps and the counter as they are: the transaction found,
\* the count, the slots, or the hashes Range passed to a callback that always continues
Reads(call) ==
    CASE call.name = "Get" ->
           {IF call.h \in locals \/ call.h \in remotes THEN <<call.h>> ELSE <<>>}
      [] call.name = "GetLocal" -> {IF call.h \in locals THEN <<call.h>> ELSE <<>>}
      [] call.name = "GetRemote" -> {IF call.h \in remotes THEN <<call.h>> ELSE <<>>}
      [] call.name = "Count" -> {<<Cardinality(locals) + Cardinality(remotes)>>}
      [] call.name = "Slots" -> {<<slots>>}
      [] call.name = "Range" ->
           { l \o r : l \in (IF call.local THEN Orders(locals) ELSE {<<>>}),
                      r \in (IF call.remote THEN Orders(remotes) ELSE {<<>>}) }

\* the body of the read
ReadStep ==
    /\ reader.pc = "locked"
    /\ \E seen \in Reads(reader) : reader' = [reader EXCEPT !.pc = "read", !.seen = seen]
    /\ UNCHANGED <<stateVars, lock, writer, setVars, raceVars, discarding, lookupVars, pricedVars, listVars, op, ret>>

\* the deferred t.lock.RUnlock() and the return
RUnlockStep ==
    /\ reader.pc = "read"
    /\ lock' = [lock EXCEPT !.r = @ - 1]
    /\ op' = [name |-> reader.name, h |-> reader.h, n |-> 0, flag |-> reader.local,
              set |-> {}]
    /\ ret' = PResult(TRUE, reader.seen, 0)
    /\ reader' = IdleReader
    /\ UNCHANGED <<stateVars, writer, setVars, raceVars, discarding, lookupVars, pricedVars, listVars>>

ThreadNext ==
    \/ AddLockStep \/ AddSlotsStep \/ AddStoreStep
    \/ RemoveLockStep \/ RemoveFindStep \/ RemoveSlotsStep \/ RemoveLocalsStep
    \/ RemoveRemotesStep
    \/ MigrateLockStep \/ MigrateNextStep \/ MigrateStoreStep \/ MigrateDeleteStep
    \/ UnlockStep
    \/ RLockStep \/ ReadStep \/ RUnlockStep

SpecThreads == PoolInit /\ [][ThreadNext]_vars

(***************************************************************************)
(* The PricedList over a Lookup of up to NumTxs + 2 remotes, under inserts, *)
(* removes, Removed, SetBaseFee and Reheap                                 *)
(***************************************************************************)
ManyHashes == 1..(NumTxs + 2)
RemovedCounts == 0..2
BaseFees == {1}

\* PricedList.Removed; ok tells whether it ran Reheap
Removed(count) ==
    /\ op' = PCall("Removed", 0, count, FALSE)
    /\ IF NeedsReheap(stales + count, urgent, floating)
       THEN \E r \in ReheapResults(remotes) :
               /\ urgent' = r.urgent /\ floating' = r.floating /\ stales' = r.stales
               /\ ret' = PResult(TRUE, <<>>, 0)
       ELSE /\ stales' = stales + count
            /\ ret' = PResult(FALSE, <<>>, 0)
            /\ UNCHANGED <<urgent, floating>>
    /\ UNCHANGED baseFee

\* PricedList.SetBaseFee
SetBaseFee(fee) ==
    /\ op' = PCall("SetBaseFee", 0, fee, FALSE)
    /\ baseFee' = fee
    /\ \E r \in ReheapResults(remotes) :
          /\ urgent' = r.urgent /\ floating' = r.floating /\ stales' = r.stales
    /\ ret' = PResult(TRUE, <<>>, 0)

\* Lookup.Add(tx, false) followed by PricedList.Put(tx, false), for a hash not stored
InsertStep ==
    /\ \E h \in ManyHashes :
          /\ h \notin locals /\ h \notin remotes
          /\ Len(urgent) + Len(floating) < MaxHeap + 1
          /\ LookupAdd(h, FALSE)
          /\ urgent' = Put(urgent, h, FALSE)
          /\ op' = PCall("Add", h, 0, FALSE)
          /\ ret' = PResult(TRUE, <<>>, 0)
    /\ UNCHANGED <<floating, stales, baseFee, listVars, restVars>>

\* Lookup.Remove of a stored hash followed by PricedList.Removed(1); the call recorded is
\* the Removed(1), with the hash that was removed
DeleteStep ==
    /\ \E h \in remotes :
          /\ LookupRemove(h)
          /\ op' = PCall("Removed", h, 1, FALSE)
          /\ IF NeedsReheap(stales + 1, urgent, floating)
             THEN \E r \in ReheapResults(remotes') :
                     /\ urgent' = r.urgent /\ floating' = r.floating /\ stales' = r.stales
                     /\ ret' = PResult(TRUE, <<>>, 0)
             ELSE /\ stales' = stales + 1
                  /\ ret' = PResult(FALSE, <<>>, 0)
                  /\ UNCHANGED <<urgent, floating>>
    /\ UNCHANGED <<baseFee, listVars, restVars>>

RemovedStep ==
    /\ \E count \in RemovedCounts : Removed(count)
    /\ UNCHANGED <<lookupVars, listVars, restVars>>

SetBaseFeeStep ==
    /\ \E fee \in BaseFees : SetBaseFee(fee)
    /\ UNCHANGED <<lookupVars, listVars, restVars>>

ReheapNext == InsertStep \/ DeleteStep \/ RemovedStep \/ SetBaseFeeStep \/ ReheapStep

SpecReheap == PoolInit /\ [][ReheapNext]_vars

(***************************************************************************)
(* Eviction from a pool of remotes: Put, Reheap, Discard and the removal   *)
(* of what Discard returned                                                *)
(***************************************************************************)
\* the pool adds a remote transaction it does not hold, once the drops of the last
\* Discard are removed
EvictInsertStep ==
    /\ ~PendingDrop
    /\ InsertStep

EvictNext == EvictInsertStep \/ ReheapStep \/ DiscardStep \/ EvictStep

SpecEvict == PoolInit /\ [][EvictNext]_vars

(***************************************************************************)
(* The priced list under churn: remotes come and go through Put and        *)
(* Removed while Underpriced, Discard and Reheap are called, over enough   *)
(* transactions for Reheap to fill the floating heap                       *)
(***************************************************************************)
ChurnHashes == 1..(NumTxs + 3)

\* Lookup.Add of a remote transaction the pool does not hold, followed by Put
ChurnInsertStep ==
    /\ ~PendingDrop
    /\ \E h \in ChurnHashes :
          /\ h \notin locals /\ h \notin remotes
          /\ Len(urgent) + Len(floating) < MaxHeap + 1
          /\ LookupAdd(h, FALSE)
          /\ urgent' = Put(urgent, h, FALSE)
          /\ op' = PCall("Add", h, 0, FALSE)
          /\ ret' = PResult(TRUE, <<>>, 0)
    /\ UNCHANGED <<floating, stales, baseFee, listVars, restVars>>

\* Lookup.Remove of a remote followed by Removed(1), once the drops of the last Discard
\* are removed
ChurnDeleteStep ==
    /\ ~PendingDrop
    /\ DeleteStep

ChurnNext ==
    \/ ChurnInsertStep \/ ChurnDeleteStep \/ UnderpricedStep
    \/ DiscardStep \/ EvictStep \/ ReheapStep

SpecChurn == PoolInit /\ [][ChurnNext]_vars

(***************************************************************************)
(* PricedList.Discard, one loop iteration at a time. The pool calls it     *)
(* under its own lock, so nothing else runs while the loop does            *)
(***************************************************************************)
\* a choice of heap by a ratio of 2:1
PopsUrgentHalf(u, f) == Len(u) * 1 > Len(f) * 2

\* the loop's choice of heap, line 148
PopsUrgent(u, f) == Len(u) * 1 > Len(f) * 4

\* the loop condition of line 147 and the break of line 158
LoopRuns(u, f, n) == n > 0 /\ (PopsUrgent(u, f) \/ Len(f) # 0)

LoopInsertStep ==
    /\ discarding.pc = "idle"
    /\ EvictInsertStep

LoopDeleteStep ==
    /\ discarding.pc = "idle"
    /\ ChurnDeleteStep

LoopReheapStep ==
    /\ discarding.pc = "idle"
    /\ ReheapStep

LoopEvictStep ==
    /\ discarding.pc = "idle"
    /\ EvictStep

\* Discard is called, line 146: drop is empty
DiscardBeginStep ==
    /\ discarding.pc = "idle" /\ ~PendingDrop
    /\ \E n \in SlotsNeeded, force \in BOOLEAN :
          discarding' = [pc |-> "loop", asked |-> n, slots |-> n, force |-> force, drop |-> <<>>]
    /\ UNCHANGED <<stateVars, setVars, threadVars, raceVars, lookupVars, pricedVars, listVars, op, ret>>

\* one iteration that pops the urgent heap, lines 149-156
DiscardUrgentStep ==
    /\ discarding.pc = "loop"
    /\ LoopRuns(urgent, floating, discarding.slots)
    /\ PopsUrgent(urgent, floating)
    /\ LET p == HeapPop(urgent) IN
       /\ urgent' = p.list
       /\ IF ~GetRemote(remotes, p.x)
          THEN stales' = stales - 1 /\ UNCHANGED floating
          ELSE floating' = HeapPush(floating, p.x) /\ UNCHANGED stales
    /\ UNCHANGED <<stateVars, discarding, setVars, threadVars, raceVars, lookupVars, baseFee, listVars,
                   op, ret>>

\* one iteration that pops the floating heap, lines 157-171
DiscardFloatingStep ==
    /\ discarding.pc = "loop"
    /\ LoopRuns(urgent, floating, discarding.slots)
    /\ ~PopsUrgent(urgent, floating)
    /\ LET p == HeapPop(floating) IN
       /\ floating' = p.list
       /\ IF ~GetRemote(remotes, p.x)
          THEN stales' = stales - 1 /\ UNCHANGED discarding
          ELSE /\ discarding' = [discarding EXCEPT !.drop = Append(@, p.x),
                                                   !.slots = @ - numSlots(PoolTx(p.x))]
               /\ UNCHANGED stales
    /\ UNCHANGED <<stateVars, urgent, setVars, threadVars, raceVars, lookupVars, baseFee, listVars, op, ret>>

\* the loop is over, lines 175-182: the drops are pushed back or returned
DiscardReturnStep ==
    /\ discarding.pc = "loop"
    /\ ~LoopRuns(urgent, floating, discarding.slots)
    /\ IF discarding.slots > 0 /\ ~discarding.force
       THEN /\ urgent' = PushAll(urgent, discarding.drop)
            /\ ret' = PResult(FALSE, <<>>, 0)
       ELSE /\ ret' = PResult(TRUE, discarding.drop, 0)
            /\ UNCHANGED urgent
    /\ op' = PCall("Discard", 0, discarding.asked, discarding.force)
    /\ discarding' = IdleDiscard
    /\ UNCHANGED <<stateVars, setVars, threadVars, raceVars, lookupVars, stales, floating, baseFee, listVars>>

LoopNext ==
    \/ LoopInsertStep \/ LoopDeleteStep \/ LoopReheapStep \/ LoopEvictStep
    \/ DiscardBeginStep \/ DiscardUrgentStep \/ DiscardFloatingStep \/ DiscardReturnStep

SpecLoop == PoolInit /\ [][LoopNext]_vars

\* the goroutine that called Discard keeps running
SpecLoopFair ==
    /\ SpecLoop
    /\ WF_vars(DiscardUrgentStep) /\ WF_vars(DiscardFloatingStep) /\ WF_vars(DiscardReturnStep)

(***************************************************************************)
(* PricedList under concurrent access: one goroutine adds remote           *)
(* transactions (Lookup.Add, then Put) while another runs Reheap. Put      *)
(* takes no lock, Reheap holds reheapMu only; the appends to urgent.list   *)
(* are a load of the slice header followed by a store                      *)
(***************************************************************************)
\* whether Reheap is inside its Range over the remotes, holding the Lookup's read lock
Ranging == reheaping.pc \in {"Range.load", "Range.store"}

\* Lookup.Add of a remote transaction the pool does not hold; Put is to follow
RaceAddStep ==
    /\ putting.pc = "idle" /\ ~Ranging
    /\ \E h \in Hashes :
          /\ h \notin locals /\ h \notin remotes
          /\ LookupAdd(h, FALSE)
          /\ putting' = [pc |-> "Put", h |-> h, list |-> <<>>]
          /\ op' = PCall("Add", h, 0, FALSE)
    /\ ret' = PResult(TRUE, <<>>, 0)
    /\ UNCHANGED <<stateVars, reheaping, setVars, threadVars, discarding, pricedVars, listVars>>

\* Put, heap.Push: priceHeap.Push loads h.list
PutLoadStep ==
    /\ putting.pc = "Put"
    /\ putting' = [putting EXCEPT !.pc = "Put.store", !.list = urgent]
    /\ UNCHANGED <<stateVars, reheaping, setVars, threadVars, discarding, lookupVars, pricedVars, listVars, op, ret>>

\* Put, heap.Push: priceHeap.Push stores the appended slice and the entry is sifted up
PutStoreStep ==
    /\ putting.pc = "Put.store"
    /\ urgent' = HeapPush(putting.list, putting.h)
    /\ putting' = IdlePut
    /\ op' = PCall("Put", putting.h, 0, FALSE)
    /\ ret' = PResult(TRUE, <<>>, 0)
    /\ UNCHANGED <<stateVars, reheaping, setVars, threadVars, discarding, lookupVars, stales, floating, baseFee, listVars>>

\* Reheap, lines 186-190: reheapMu is taken, stales and urgent.list are reset and the
\* Range over the remotes starts, in any order
ReheapStartStep ==
    /\ reheaping.pc = "idle"
    /\ stales' = 0
    /\ urgent' = <<>>
    /\ \E order \in Orders(remotes) :
          reheaping' = [pc |-> "Range.load", todo |-> order, list |-> <<>>]
    /\ UNCHANGED <<stateVars, putting, setVars, threadVars, discarding, lookupVars, floating, baseFee, listVars, op, ret>>

\* Reheap, line 191: the callback loads l.urgent.list; or the Range is over
ReheapLoadStep ==
    /\ reheaping.pc = "Range.load"
    /\ reheaping' = IF reheaping.todo = <<>> THEN [reheaping EXCEPT !.pc = "Init"]
                    ELSE [reheaping EXCEPT !.pc = "Range.store", !.list = urgent]
    /\ UNCHANGED <<stateVars, putting, setVars, threadVars, discarding, lookupVars, pricedVars, listVars, op, ret>>

\* Reheap, line 191: the callback stores the appended slice
ReheapStoreStep ==
    /\ reheaping.pc = "Range.store"
    /\ urgent' = Append(reheaping.list, Head(reheaping.todo))
    /\ reheaping' = [reheaping EXCEPT !.pc = "Range.load", !.todo = Tail(@), !.list = <<>>]
    /\ UNCHANGED <<stateVars, putting, setVars, threadVars, discarding, lookupVars, stales, floating, baseFee, listVars,
                   op, ret>>

\* Reheap, lines 194-207: heap.Init, the move of the cheapest fifth to floating, heap.Init
ReheapFinishStep ==
    /\ reheaping.pc = "Init"
    /\ LET r == ReheapFrom(urgent) IN urgent' = r.urgent /\ floating' = r.floating
    /\ reheaping' = IdleReheap
    /\ op' = PCall("Reheap", 0, 0, FALSE)
    /\ ret' = PResult(TRUE, <<>>, 0)
    /\ UNCHANGED <<stateVars, putting, setVars, threadVars, discarding, lookupVars, stales, baseFee, listVars>>

RaceNext ==
    \/ RaceAddStep \/ PutLoadStep \/ PutStoreStep
    \/ ReheapStartStep \/ ReheapLoadStep \/ ReheapStoreStep \/ ReheapFinishStep

SpecRace == PoolInit /\ [][RaceNext]_vars

(***************************************************************************)
(* ValidateTransaction                                                     *)
(***************************************************************************)
NormalTx == 0
WithdrawTx == 1
RechargeTx == 2
UnkownTx == 3

TxGas == 21000
TxGasContractCreation == 53000
TxDataZeroGas == 4
TxDataNonZeroGas == 16
TxAccessListAddressGas == 2400
TxAccessListStorageKeyGas == 1900
InitCodeWordGas == 2

\* the transactions offered to ValidateTransaction: whether From, InputCoins and
\* OutputCoins are set; the serialized size; Value; GasLimit; GasPrice.Price as a power of
\* two, 2^priceLog2; whether the signature recovers; whether To is the zero address; the
\* non-zero and zero bytes of Data; the addresses and storage keys of the access list
ValidatedTxs ==
    [ hasFrom : BOOLEAN, hasInputCoins : BOOLEAN, hasOutputCoins : BOOLEAN,
      size : {100, 200},
      value : {-1, 0},
      gasLimit : {21015, 21016, 60000},
      priceLog2 : {0, 4, 256},
      signed : BOOLEAN,
      create : BOOLEAN,
      nz : {1}, z : {0},
      addresses : {0}, keys : {0, 1} ]
\* Header.GasLimit of the head
Heads == [ gasLimit : {50000} ]
\* ValidationOptions, MinTip = 2^minTipLog2
ValidationOpts == [ MaxSize : {150}, minTipLog2 : {2} ]

\* Transaction.Type
Type(tx) ==
    IF tx.hasFrom
    THEN IF ~tx.hasInputCoins THEN NormalTx ELSE UnkownTx
    ELSE IF ~tx.hasInputCoins /\ tx.hasOutputCoins THEN WithdrawTx
    ELSE IF tx.hasInputCoins /\ ~tx.hasOutputCoins THEN RechargeTx
    ELSE UnkownTx

\* toWordSize, for sizes far below MaxUint64
toWordSize(size) == (size + 31) \div 32

\* Transaction.IntrinsicGas; its overflow guards need at least (2^64 - 53000) / 16 bytes
\* of data and cannot fire for data that fits in memory
IntrinsicGas(tx) ==
    IF Type(tx) = NormalTx
    THEN LET gas0 == IF tx.create THEN TxGasContractCreation ELSE TxGas
             dataLen == tx.nz + tx.z
             gas1 == IF dataLen > 0
                     THEN gas0 + tx.nz * TxDataNonZeroGas + tx.z * TxDataZeroGas
                          + (IF tx.create THEN toWordSize(dataLen) * InitCodeWordGas ELSE 0)
                     ELSE gas0
         IN gas1 + tx.addresses * TxAccessListAddressGas + tx.keys * TxAccessListStorageKeyGas
    ELSE 0

\* big.Int.BitLen of 2^log2
BitLen(log2) == log2 + 1
\* big.Int.Cmp of 2^a with 2^b
CmpPow2(a, b) == IF a < b THEN -1 ELSE IF a > b THEN 1 ELSE 0

\* a ValidateTransaction that tests the gas limits before the size and the value
ValidateTransactionGasFirst(tx, head, opts) ==
    IF Type(tx) \notin {NormalTx, RechargeTx, WithdrawTx} THEN "ErrTxTypeNotSupported"
    ELSE IF Type(tx) # NormalTx THEN "nil"
    ELSE IF head.gasLimit < tx.gasLimit THEN "ErrGasLimit"
    ELSE IF tx.size > opts.MaxSize THEN "ErrOversizedData"
    ELSE IF tx.value < 0 THEN "ErrNegativeValue"
    ELSE IF BitLen(tx.priceLog2) > 256 THEN "ErrPriceVeryHigh"
    ELSE IF ~tx.signed THEN "ErrInvalidSender"
    ELSE IF tx.gasLimit < IntrinsicGas(tx) THEN "ErrIntrinsicGas"
    ELSE IF CmpPow2(tx.priceLog2, opts.minTipLog2) < 0 THEN "ErrUnderpriced"
    ELSE "nil"

\* ValidateTransaction: the error it returns
ValidateTransaction(tx, head, opts) ==
    IF Type(tx) \notin {NormalTx, RechargeTx, WithdrawTx} THEN "ErrTxTypeNotSupported"
    ELSE IF Type(tx) # NormalTx THEN "nil"
    ELSE IF tx.size > opts.MaxSize THEN "ErrOversizedData"
    ELSE IF tx.value < 0 THEN "ErrNegativeValue"
    ELSE IF head.gasLimit < tx.gasLimit THEN "ErrGasLimit"
    ELSE IF BitLen(tx.priceLog2) > 256 THEN "ErrPriceVeryHigh"
    ELSE IF ~tx.signed THEN "ErrInvalidSender"
    ELSE IF tx.gasLimit < IntrinsicGas(tx) THEN "ErrIntrinsicGas"
    ELSE IF CmpPow2(tx.priceLog2, opts.minTipLog2) < 0 THEN "ErrUnderpriced"
    ELSE "nil"

\* a transaction, a head and options, before ValidateTransaction is called on them
ValidateInit ==
    /\ slots = 0 /\ locals = {} /\ remotes = {}
    /\ RestInit
    /\ stales = 0 /\ urgent = <<>> /\ floating = <<>> /\ baseFee = 0
    /\ strict = FALSE /\ items = <<>> /\ costcap = 0 /\ gascap = 0 /\ totalcost = 0
    /\ \E tx \in ValidatedTxs, head \in Heads, opts \in ValidationOpts :
          op = [name |-> "input", tx |-> tx, head |-> head, opts |-> opts]
    /\ ret = [err |-> "none"]

\* the call; it reads the transaction, the head and the options and writes none of them
ValidateStep ==
    /\ op.name = "input"
    /\ op' = [op EXCEPT !.name = "ValidateTransaction"]
    /\ ret' = [err |-> ValidateTransaction(op.tx, op.head, op.opts)]
    /\ UNCHANGED <<lookupVars, pricedVars, listVars, restVars>>

\* a LegacyPool.Filter that takes Normal transactions only
LegacyPoolFilterNormalOnly(tx) == Type(tx) = NormalTx

\* LegacyPool.Filter: the type switch over the transaction's kind
LegacyPoolFilter(tx) == Type(tx) \in {NormalTx, RechargeTx, WithdrawTx}

\* the pool asks Filter whether it can consume the transaction
LegacyPoolFilterStep ==
    /\ op.name = "input"
    /\ op' = [op EXCEPT !.name = "Filter"]
    /\ ret' = [err |-> "none", ok |-> LegacyPoolFilter(op.tx)]
    /\ UNCHANGED <<lookupVars, pricedVars, listVars, restVars>>

ValidateNext == ValidateStep \/ LegacyPoolFilterStep

SpecValidate == ValidateInit /\ [][ValidateNext]_vars

(***************************************************************************)
(* ValidateTransactionWithState                                            *)
(***************************************************************************)
\* a nil callback, or the nil *big.Int that ExistingCost returns when no transaction of
\* that nonce is pooled
None == -1

\* the transactions offered to ValidateTransactionWithState: whether From, InputCoins and
\* OutputCoins are set; Nonce; GasLimit; GasPrice.Price; Value; the sum of the amounts of
\* OutputCoins
StatefulTxs ==
    [ hasFrom : BOOLEAN, hasInputCoins : BOOLEAN, hasOutputCoins : BOOLEAN,
      nonce : {1, 2, 3},
      gasLimit : {20}, price : {1},
      value : {0, 10},
      outputs : {5} ]

\* ValidationOptionsWithState as the call sees it: State.GetNonce(from), State.GetBalance(from),
\* FirstNonceGap(from) or None when the callback is nil, ExistingExpenditure(from, nonce),
\* ExistingCost(from, nonce) or None
StatefulOpts ==
    [ nonce : {1, 2},
      balance : {15, 25, 35},
      FirstNonceGap : {None, 1, 2},
      ExistingExpenditure : {0, 10},
      ExistingCost : {None, 5, 30} ]

\* Transaction.Cost; nil (None) for a transaction of no known kind
TransactionCost(tx) ==
    IF Type(tx) = NormalTx THEN tx.price * tx.gasLimit + tx.value
    ELSE IF Type(tx) = WithdrawTx THEN tx.price * tx.gasLimit + tx.outputs
    ELSE IF Type(tx) = RechargeTx THEN tx.price * tx.gasLimit
    ELSE None

\* ValidateTransactionWithState: the error it returns
ValidateTransactionWithState(tx, opts) ==
    IF Type(tx) = NormalTx
    THEN LET next == opts.nonce
             balance == opts.balance
             cost == TransactionCost(tx)
             spent == opts.ExistingExpenditure
             prev == opts.ExistingCost
         IN IF next > tx.nonce THEN "ErrNonceTooLow"
            ELSE IF opts.FirstNonceGap # None /\ opts.FirstNonceGap < tx.nonce
                 THEN "ErrNonceTooHigh"
            ELSE IF balance < cost THEN "ErrInsufficientFunds"
            ELSE IF prev # None
                 THEN IF balance < spent + (cost - prev) THEN "ErrInsufficientFunds" ELSE "nil"
                 ELSE IF balance < spent + cost THEN "ErrInsufficientFunds" ELSE "nil"
    ELSE "nil"

\* a transaction and the options, before ValidateTransactionWithState is called on them
StatefulInit ==
    /\ slots = 0 /\ locals = {} /\ remotes = {}
    /\ RestInit
    /\ stales = 0 /\ urgent = <<>> /\ floating = <<>> /\ baseFee = 0
    /\ strict = FALSE /\ items = <<>> /\ costcap = 0 /\ gascap = 0 /\ totalcost = 0
    /\ \E tx \in StatefulTxs, opts \in StatefulOpts :
          op = [name |-> "input", tx |-> tx, opts |-> opts]
    /\ ret = [err |-> "none"]

\* the call; it reads the transaction and the state and writes neither
StatefulStep ==
    /\ op.name = "input"
    /\ op' = [op EXCEPT !.name = "ValidateTransactionWithState"]
    /\ ret' = [err |-> ValidateTransactionWithState(op.tx, op.opts)]
    /\ UNCHANGED <<lookupVars, pricedVars, listVars, restVars>>

StatefulNext == StatefulStep

SpecStateful == StatefulInit /\ [][StatefulNext]_vars

(***************************************************************************)
(* Config.sanitize                                                         *)
(***************************************************************************)
\* a time.Duration, s seconds and ns nanoseconds (0 <= ns < 10^9); -1 ns is
\* [s |-> -1, ns |-> 999999999]
Duration(s, ns) == [s |-> s, ns |-> ns]
Nanosecond == Duration(0, 1)
Second == Duration(1, 0)
Hour == Duration(3600, 0)
\* d < e on time.Duration
DurationLess(d, e) == d.s < e.s \/ (d.s = e.s /\ d.ns < e.ns)

\* DefaultConfig
DefaultConfig ==
    [ NoLocals |-> FALSE, Journal |-> "transactions.encoded", Rejournal |-> Hour,
      PriceLimit |-> 1, PriceBump |-> 10,
      AccountSlots |-> 16, GlobalSlots |-> 4096 + 1024,
      AccountQueue |-> 64, GlobalQueue |-> 1024,
      Lifetime |-> Duration(3 * 3600, 0) ]

\* the configurations a user may provide
Configs ==
    [ NoLocals : {FALSE}, Journal : {""},
      Rejournal : {Duration(-1, 999999999), Duration(0, 999999999), Second, Hour},
      PriceLimit : {0, 5}, PriceBump : {0, 5},
      AccountSlots : {0, 1}, GlobalSlots : {0, 7},
      AccountQueue : {0, 1}, GlobalQueue : {0, 2000},
      Lifetime : {Duration(-1, 999999999), Duration(0, 0), Nanosecond} ]

\* a sanitize that resets every price bump below the default
sanitizeBumpBelowDefault(config) ==
    [ config EXCEPT
        !.Rejournal = IF DurationLess(@, Second) THEN Second ELSE @,
        !.PriceLimit = IF @ < 1 THEN DefaultConfig.PriceLimit ELSE @,
        !.PriceBump = IF @ < DefaultConfig.PriceBump THEN DefaultConfig.PriceBump ELSE @,
        !.AccountSlots = IF @ < 1 THEN DefaultConfig.AccountSlots ELSE @,
        !.GlobalSlots = IF @ < 1 THEN DefaultConfig.GlobalSlots ELSE @,
        !.AccountQueue = IF @ < 1 THEN DefaultConfig.AccountQueue ELSE @,
        !.GlobalQueue = IF @ < 1 THEN DefaultConfig.GlobalQueue ELSE @,
        !.Lifetime = IF DurationLess(@, Nanosecond) THEN DefaultConfig.Lifetime ELSE @ ]

\* Config.sanitize: the copy it returns
sanitize(config) ==
    [ config EXCEPT
        !.Rejournal = IF DurationLess(@, Second) THEN Second ELSE @,
        !.PriceLimit = IF @ < 1 THEN DefaultConfig.PriceLimit ELSE @,
        !.PriceBump = IF @ < 1 THEN DefaultConfig.PriceBump ELSE @,
        !.AccountSlots = IF @ < 1 THEN DefaultConfig.AccountSlots ELSE @,
        !.GlobalSlots = IF @ < 1 THEN DefaultConfig.GlobalSlots ELSE @,
        !.AccountQueue = IF @ < 1 THEN DefaultConfig.AccountQueue ELSE @,
        !.GlobalQueue = IF @ < 1 THEN DefaultConfig.GlobalQueue ELSE @,
        !.Lifetime = IF DurationLess(@, Nanosecond) THEN DefaultConfig.Lifetime ELSE @ ]

\* a configuration, before sanitize is called on it
SanitizeInit ==
    /\ slots = 0 /\ locals = {} /\ remotes = {}
    /\ RestInit
    /\ stales = 0 /\ urgent = <<>> /\ floating = <<>> /\ baseFee = 0
    /\ strict = FALSE /\ items = <<>> /\ costcap = 0 /\ gascap = 0 /\ totalcost = 0
    /\ \E config \in Configs : op = [name |-> "input", config |-> config]
    /\ ret = [err |-> "none"]

\* config.sanitize(): op.config is the receiver, ret.conf the configuration returned
SanitizeStep ==
    /\ op.name = "input"
    /\ op' = [op EXCEPT !.name = "sanitize"]
    /\ ret' = [conf |-> sanitize(op.config)]
    /\ UNCHANGED <<lookupVars, pricedVars, listVars, restVars>>

\* sanitize called on the configuration the first call returned
SanitizeAgainStep ==
    /\ op.name = "sanitize"
    /\ op' = [op EXCEPT !.name = "sanitize again"]
    /\ ret' = [conf |-> sanitize(ret.conf)]
    /\ UNCHANGED <<lookupVars, pricedVars, listVars, restVars>>

SanitizeNext == SanitizeStep \/ SanitizeAgainStep

SpecSanitize == SanitizeInit /\ [][SanitizeNext]_vars

(***************************************************************************)
(* EasyStateDB (state/statedb.go): balances maps an address to a *big.Int, *)
(* so a database holds pointers; ints is the store of the objects behind   *)
(* them. big.Int.Add and Sub write their receiver in place.                *)
(***************************************************************************)
MaxInts == 2        \* a big.Int is allocated while fewer than MaxInts objects exist
MaxBalance == 2     \* a balance is changed while it stays within -MaxBalance .. MaxBalance

Accounts == {"A", "B"}
Amounts == {1, 2}
StateNonces == {1}

\* EasyStateDB.GetNonce
GetNonce(db, addr) == db.nonces[addr]

\* EasyStateDB.GetBalance, the value read: that of big.NewInt(0) when the map has no entry
GetBalance(db, heap, addr) ==
    IF db.balances[addr] = 0 THEN 0 ELSE heap[db.balances[addr]]

\* EasyStateDB.SetNonce
SetNonce(db, addr, nonce) == [db EXCEPT !.nonces[addr] = nonce]

\* EasyStateDB.SetBalance with a big.Int the caller has just made: the map keeps the pointer
SetBalance(db, heap, addr, amount) ==
    [db |-> [db EXCEPT !.balances[addr] = Len(heap) + 1], ints |-> Append(heap, amount)]

\* EasyStateDB.AddBalance: GetBalance hands out the stored pointer, or a new zero when the
\* map has no entry; balance.Add(balance, amount) writes that object; SetBalance stores
\* the same pointer
AddBalance(db, heap, addr, amount) ==
    LET has == db.balances[addr] # 0
        p == IF has THEN db.balances[addr] ELSE Len(heap) + 1
        h == IF has THEN heap ELSE Append(heap, 0)
    IN [db |-> [db EXCEPT !.balances[addr] = p], ints |-> [h EXCEPT ![p] = @ + amount]]

\* EasyStateDB.SubBalance
SubBalance(db, heap, addr, amount) ==
    LET has == db.balances[addr] # 0
        p == IF has THEN db.balances[addr] ELSE Len(heap) + 1
        h == IF has THEN heap ELSE Append(heap, 0)
    IN [db |-> [db EXCEPT !.balances[addr] = p], ints |-> [h EXCEPT ![p] = @ - amount]]

\* EasyStateDB.Copy: new maps, filled with the entries of the old ones, pointers included
Copy(db) == [balances |-> [a \in DOMAIN db.balances |-> db.balances[a]],
             nonces |-> [a \in DOMAIN db.nonces |-> db.nonces[a]]]

\* a call on a state database: which one, the address and the amount or nonce
DCall(name, db, addr, amount) == [name |-> name, db |-> db, addr |-> addr, amount |-> amount]

\* the databases that exist
Databases == IF copy = NoStateDB THEN {"original"} ELSE {"original", "copy"}
DatabaseOf(which) == IF which = "original" THEN original ELSE copy

\* the state after a call on the database which that left it as db
StateAfter(which, db, heap) ==
    /\ ints' = heap
    /\ original' = IF which = "original" THEN db ELSE original
    /\ copy' = IF which = "copy" THEN db ELSE copy

StateInit ==
    /\ slots = 0 /\ locals = {} /\ remotes = {}
    /\ RestInit
    /\ stales = 0 /\ urgent = <<>> /\ floating = <<>> /\ baseFee = 0
    /\ strict = FALSE /\ items = <<>> /\ costcap = 0 /\ gascap = 0 /\ totalcost = 0
    /\ op = DCall("NewEasyStateDB", "original", "", 0)
    /\ ret = [ok |-> TRUE]

StateCopyStep ==
    /\ copy = NoStateDB
    /\ copy' = Copy(original)
    /\ op' = DCall("Copy", "original", "", 0)
    /\ UNCHANGED <<ints, original, ret>>
    /\ UNCHANGED <<lookupVars, pricedVars, listVars, setVars, threadVars, raceVars, discarding>>

StateSetBalanceStep ==
    /\ Len(ints) < MaxInts
    /\ \E which \in Databases, addr \in Accounts, amount \in Amounts :
          LET r == SetBalance(DatabaseOf(which), ints, addr, amount) IN
          /\ StateAfter(which, r.db, r.ints)
          /\ op' = DCall("SetBalance", which, addr, amount)
    /\ UNCHANGED ret
    /\ UNCHANGED <<lookupVars, pricedVars, listVars, setVars, threadVars, raceVars, discarding>>

StateAddBalanceStep ==
    /\ \E which \in Databases, addr \in Accounts, amount \in Amounts :
          LET r == AddBalance(DatabaseOf(which), ints, addr, amount) IN
          /\ Len(r.ints) <= MaxInts
          /\ GetBalance(r.db, r.ints, addr) <= MaxBalance
          /\ StateAfter(which, r.db, r.ints)
          /\ op' = DCall("AddBalance", which, addr, amount)
    /\ UNCHANGED ret
    /\ UNCHANGED <<lookupVars, pricedVars, listVars, setVars, threadVars, raceVars, discarding>>

StateSubBalanceStep ==
    /\ \E which \in Databases, addr \in Accounts, amount \in Amounts :
          LET r == SubBalance(DatabaseOf(which), ints, addr, amount) IN
          /\ Len(r.ints) <= MaxInts
          /\ GetBalance(r.db, r.ints, addr) >= -MaxBalance
          /\ StateAfter(which, r.db, r.ints)
          /\ op' = DCall("SubBalance", which, addr, amount)
    /\ UNCHANGED ret
    /\ UNCHANGED <<lookupVars, pricedVars, listVars, setVars, threadVars, raceVars, discarding>>

StateSetNonceStep ==
    /\ \E which \in Databases, addr \in Accounts, nonce \in StateNonces :
          /\ StateAfter(which, SetNonce(DatabaseOf(which), addr, nonce), ints)
          /\ op' = DCall("SetNonce", which, addr, nonce)
    /\ UNCHANGED ret
    /\ UNCHANGED <<lookupVars, pricedVars, listVars, setVars, threadVars, raceVars, discarding>>

StateNext ==
    \/ StateCopyStep \/ StateSetBalanceStep \/ StateAddBalanceStep
    \/ StateSubBalanceStep \/ StateSetNonceStep

SpecState == StateInit /\ [][StateNext]_vars

(***************************************************************************)
(* Properties of the Lookup and the PricedList                             *)
(***************************************************************************)
\* the positions of a heap that hold a transaction stored in Lookup.remotes
LivePos(list, rem) == { i \in 1..Len(list) : list[i] \in rem }
\* how often hash h is held in a heap
Count(list, h) == Cardinality({ i \in 1..Len(list) : list[i] = h })
\* the slots of the live entries of a heap, each entry counted
LiveSlots(list, rem) ==
    LET RECURSIVE Sum(_)
        Sum(P) == IF P = {} THEN 0
                  ELSE LET i == Min(P) IN numSlots(PoolTx(list[i])) + Sum(P \ {i})
    IN Sum(LivePos(list, rem))
\* price is not strictly higher than the cheapest live remote of the heap, if it holds one
NotBetter(list, rem, price) ==
    LivePos(list, rem) = {} \/ price <= Min({ TxPrice(list[i]) : i \in LivePos(list, rem) })

C7_DiscardAllOrNothing ==
    [][(op'.name = "Discard" /\ ~op'.flag) =>
         /\ ~ret'.ok <=> LiveSlots(urgent, remotes) + LiveSlots(floating, remotes) < op'.n
         /\ ~ret'.ok =>
              /\ ret'.txs = <<>>
              /\ \A h \in Hashes :
                   Count(urgent', h) + Count(floating', h) =
                      IF h \in remotes THEN Count(urgent, h) + Count(floating, h) ELSE 0]_vars

\* a failed Discard that popped a stale entry and left two live remotes in the heaps
C7_Witness ==
    /\ op.name = "Discard" /\ ~op.flag /\ ~ret.ok
    /\ ret.n > 0
    /\ Cardinality(LivePos(urgent, remotes)) + Cardinality(LivePos(floating, remotes)) >= 2

\* C8: when Discard(slotsNeeded, force = false) returns ok = true the slot counts of the
\* returned transactions sum to at least slotsNeeded and each returned transaction has been
\* removed from both heaps; with force = true Discard always returns ok = true.
C8_DiscardFreesSlots ==
    [][op'.name = "Discard" =>
         /\ (~op'.flag /\ ret'.ok) => SumSlots(SeqSet(ret'.txs)) >= op'.n
         /\ ret'.ok => \A h \in SeqSet(ret'.txs) : Count(urgent', h) + Count(floating', h) = 0
         /\ op'.flag => ret'.ok]_vars

\* C9: Put(tx, local = true) leaves both heaps unchanged, and Discard never returns a
\* transaction that is absent from Lookup.remotes.
C9_LocalsNeverEvicted ==
    [][/\ (op'.name = "Add" /\ op'.flag) => UNCHANGED <<urgent, floating>>
       /\ op'.name = "Discard" => \A h \in SeqSet(ret'.txs) : h \in remotes]_vars

\* a Discard that skipped a stale entry, returned a remote, and left a migrated transaction alone
C9_Witness ==
    /\ op.name = "Discard" /\ ret.n > 0 /\ ret.txs # <<>>
    /\ locals # {}

\* C10: the slots counter equals the sum of numSlots(tx) over every transaction stored in
\* locals or remotes, each stored hash counted once.
C10_SlotsMatchStored == slots = SumSlots(locals \cup remotes)

\* C11 as claimed: after every operation on the pair (Lookup, PricedList) a transaction is
\* held in the urgent or floating heap iff it is present in Lookup.remotes (the states in
\* which the pool has still to remove the drops Discard returned are left out).
C11_HeapsHoldExactlyRemotes ==
    ~PendingDrop =>
        \A h \in Hashes : (Count(urgent, h) + Count(floating, h) > 0) <=> h \in remotes

\* C11 amended: every transaction of Lookup.remotes is held in the urgent or floating heap,
\* except the transactions a successful Discard has just returned and the pool has still to
\* remove; the heaps may hold further, stale entries.
C11_RemotesHeldInHeaps ==
    \A h \in remotes :
        \/ Count(urgent, h) + Count(floating, h) > 0
        \/ PendingDrop /\ h \in SeqSet(ret.txs)

\* a Remove without reheap left a stale entry in the urgent heap next to a live one
C11_Witness ==
    /\ op.name = "Remove" /\ ret.ok /\ ret.n = 0
    /\ \E i \in 1..Len(urgent) : urgent[i] \notin remotes
    /\ \E i \in 1..Len(urgent) : urgent[i] \in remotes

\* the only remote of the Lookup has price 50
OnlyRemoteAt50 == \E h \in Hashes : remotes = {h} /\ TxPrice(h) = 50

\* C15: when the only tracked remote has price 50, Underpriced(remote with price 40) is
\* true and leaves the Lookup and the live content of the heaps unchanged;
\* Underpriced(remote with price 60) is false and the following Discard(1, false) returns
\* exactly the price-50 transaction with ok = true.
C15_UnderpricedFullPool ==
    [][/\ (op'.name = "Underpriced" /\ OnlyRemoteAt50 /\ op'.n = 40) =>
            /\ ret'.ok
            /\ UNCHANGED lookupVars
            /\ \A h \in remotes : /\ Count(urgent', h) = Count(urgent, h)
                                  /\ Count(floating', h) = Count(floating, h)
       /\ (op'.name = "Underpriced" /\ OnlyRemoteAt50 /\ op'.n = 60) => ~ret'.ok
       /\ (/\ op.name = "Underpriced" /\ op.n = 60 /\ ~ret.ok /\ OnlyRemoteAt50
           /\ op'.name = "Discard" /\ op'.n = 1 /\ ~op'.flag) =>
            /\ ret'.ok
            /\ Len(ret'.txs) = 1 /\ remotes = {ret'.txs[1]}]_vars

\* Underpriced(price 40) answered true against the single remote of price 50 after popping
\* a stale head
C15_Witness ==
    /\ op.name = "Underpriced" /\ op.n = 40 /\ ret.ok /\ ret.n > 0
    /\ OnlyRemoteAt50

\* the lowest price among the transactions of Lookup.remotes
MinRemotePrice == Min({ TxPrice(h) : h \in remotes })
\* the call that produced the current state ran Reheap
ReheapRan == op.name \in {"Reheap", "SetBaseFee"} \/ (op.name = "Removed" /\ ret.ok)

\* C17 as claimed: after SetBaseFee the top of the urgent heap is a remote transaction with
\* the lowest price among all transactions in Lookup.remotes, for any number of remotes
\* (at least one).
C17_UrgentTopLowest ==
    (op.name = "SetBaseFee" /\ remotes # {}) =>
        /\ Len(urgent) > 0
        /\ urgent[1] \in remotes
        /\ TxPrice(urgent[1]) = MinRemotePrice

\* C17 amended: after SetBaseFee with n >= 1 remotes the base fee is stored and the top of
\* the urgent heap is a remote transaction; with n < 5 the floating heap is empty and that
\* top has the lowest price among all remotes; with n >= 5 the lowest price is at the top
\* of the floating heap, and the urgent top is the cheapest of the urgent heap only.
C17_CheapestTopLowest ==
    (op.name = "SetBaseFee" /\ remotes # {}) =>
        /\ baseFee = op.n
        /\ Len(urgent) > 0
        /\ urgent[1] \in remotes
        /\ \A i \in 1..Len(urgent) : TxPrice(urgent[1]) <= TxPrice(urgent[i])
        /\ Cardinality(remotes) < 5 =>
              Len(floating) = 0 /\ TxPrice(urgent[1]) = MinRemotePrice
        /\ Cardinality(remotes) >= 5 =>
              Len(floating) > 0 /\ TxPrice(floating[1]) = MinRemotePrice

\* SetBaseFee over five remotes left the cheapest one in the floating heap, below the urgent top
C17_Witness ==
    /\ op.name = "SetBaseFee"
    /\ Cardinality(remotes) >= 5
    /\ Len(floating) > 0 /\ Len(urgent) > 0
    /\ TxPrice(floating[1]) < TxPrice(urgent[1])

RECURSIVE Ascending(_, _)
Ascending(m, S) == IF S = {} THEN <<>> ELSE <<m[Min(S)]>> \o Ascending(m, S \ {Min(S)})
Restrict(m, S) == [n \in S |-> m[n]]

\* C1: Forward(threshold) removes and returns exactly the entries with
\* nonce < threshold, in ascending nonce order; every entry with nonce >= threshold,
\* the one at the threshold included, stays in the map.
C1_ForwardBelowThreshold ==
    [][op'.name = "Forward" =>
         LET below == { n \in DOMAIN items : n < op'.a } IN
         /\ ret'.txs = Ascending(items, below)
         /\ items' = Restrict(items, (DOMAIN items) \ below)]_vars

\* the length of the longest run first, first+1, ... of stored nonces whose costs sum to at most balance
RunLength(m, first, balance) ==
    Max({ k \in 0..Cardinality(DOMAIN m) :
            /\ \A i \in 0..(k - 1) : first + i \in DOMAIN m
            /\ SumCostSeq(Ascending(m, { n \in DOMAIN m : first <= n /\ n < first + k })) <= balance })
RunFrom(m, first, balance) == first .. (first + RunLength(m, first, balance) - 1)

\* C2 as claimed: Ready(startNonce, balance) removes and returns exactly the maximal
\* contiguous ascending run of nonces that begins at startNonce and whose cumulative cost
\* stays <= balance; nothing when startNonce is not stored, never an entry below startNonce.
C2_ReadyRunFromStart ==
    [][op'.name = "Ready" =>
         LET run == RunFrom(items, op'.a, op'.b) IN
         /\ ret'.txs = Ascending(items, run)
         /\ items' = Restrict(items, (DOMAIN items) \ run)]_vars

\* C2 amended: Ready(startNonce, balance) returns nothing and changes nothing when the map
\* is empty or its smallest nonce is above startNonce; otherwise it removes and returns
\* exactly the maximal contiguous ascending run of nonces that begins at the smallest
\* stored nonce (which may lie below startNonce) and whose cumulative cost stays <= balance.
C2_ReadyRunFromSmallest ==
    [][op'.name = "Ready" =>
         LET run == IF DOMAIN items = {} \/ Min(DOMAIN items) > op'.a THEN {}
                    ELSE RunFrom(items, Min(DOMAIN items), op'.b) IN
         /\ ret'.txs = Ascending(items, run)
         /\ items' = Restrict(items, (DOMAIN items) \ run)
         /\ totalcost' = totalcost - SumCostSeq(ret'.txs)]_vars

\* a Ready that returned a run of two starting below its start nonce and stopped before the end
C2_Witness ==
    /\ op.name = "Ready"
    /\ Len(ret.txs) >= 2
    /\ ret.txs[1].nonce < op.a
    /\ items # <<>>

\* C3: Add of a transaction whose nonce is already held is accepted iff
\* newPrice > oldPrice and newPrice >= oldPrice * (100 + priceBump) / 100 (integer division);
\* when rejected the list is unchanged and nothing is returned as replaced; when accepted
\* the old entry is returned and the list holds exactly the new one at that nonce.
C3_AddReplacement ==
    [][(op'.name = "Add" /\ op'.tx.nonce \in DOMAIN items) =>
         LET new == op'.tx
             old == items[new.nonce]
             accept == /\ new.price > old.price
                       /\ new.price >= (old.price * (100 + op'.a)) \div 100
         IN /\ ret'.ok = accept
            /\ ~accept => (ret'.txs = <<>> /\ UNCHANGED listVars)
            /\ accept => /\ ret'.txs = <<old>>
                         /\ items' = [items EXCEPT ![new.nonce] = new]
                         /\ totalcost' = totalcost - Cost(old) + Cost(new)]_vars

\* price 109 offered against a held price 100 with priceBump 10 was rejected
C3_Witness ==
    /\ op.name = "Add" /\ op.a = 10 /\ op.tx.price = 109
    /\ ~ret.ok
    /\ op.tx.nonce \in DOMAIN items
    /\ items[op.tx.nonce].price = 100

\* C4: Filter(balanceLimit, gasLimit) leaves no transaction with cost > balanceLimit or
\* gas > gasLimit in the list, and its removed result is exactly the set of such
\* transactions (so the cached-cap short-circuit never skips one).
C4_FilterRemovesOverLimit ==
    [][op'.name = "Filter" =>
         LET over == { n \in DOMAIN items : Cost(items[n]) > op'.a \/ items[n].gas > op'.b } IN
         /\ \A n \in DOMAIN items' : Cost(items'[n]) <= op'.a /\ items'[n].gas <= op'.b
         /\ SeqSet(ret'.txs) = { items[n] : n \in over }
         /\ Len(ret'.txs) = Cardinality(over)]_vars

\* a Filter that removed a transaction for its gas limit alone and kept another
C4_Witness ==
    /\ op.name = "Filter"
    /\ \E i \in 1..Len(ret.txs) : ret.txs[i].gas > op.b /\ Cost(ret.txs[i]) <= op.a
    /\ items # <<>>

\* C5: costcap >= the cost and gascap >= the gas limit of every transaction in the list.
C5_CapsNeverStaleLow ==
    \A n \in DOMAIN items : costcap >= Cost(items[n]) /\ gascap >= items[n].gas

\* a non-empty list whose costcap is stale-high after a replacement raised it
C5_Witness ==
    /\ items # <<>>
    /\ \A n \in DOMAIN items : costcap > Cost(items[n])
    /\ op.name = "Forward" /\ ret.txs # <<>>

\* whether a set of nonces has no gap
Contiguous(S) == S = {} \/ \A n \in Min(S)..Max(S) : n \in S

\* C12: a strict list whose nonces are contiguous stays contiguous, starting from the same
\* lowest nonce, after Filter, Remove and Cap: no transaction is left above a nonce that
\* the operation removed.
C12_StrictStaysContiguous ==
    [][(strict /\ op'.name \in {"Filter", "Remove", "Cap"} /\ Contiguous(DOMAIN items)) =>
         /\ DOMAIN items' \subseteq DOMAIN items
         /\ Contiguous(DOMAIN items')
         /\ DOMAIN items' # {} => Min(DOMAIN items') = Min(DOMAIN items)
         /\ \A n \in DOMAIN items', r \in (DOMAIN items) \ (DOMAIN items') : n < r]_vars

\* a strict Filter took one transaction out of the middle of a contiguous list of three and
\* invalidated the one above it
C12_Witness ==
    /\ strict /\ op.name = "Filter"
    /\ Len(ret.txs) = 1 /\ Len(ret.invalids) = 1
    /\ DOMAIN items = {ret.txs[1].nonce - 1}
    /\ ret.invalids[1].nonce = ret.txs[1].nonce + 1

\* the nonces of a sequence of transactions, in order
RECURSIVE NonceSeq(_)
NonceSeq(txs) == IF txs = <<>> THEN <<>> ELSE <<Head(txs).nonce>> \o NonceSeq(Tail(txs))

\* C13: with state nonce 5 and a queue holding affordable transactions with nonces 6, 5
\* and 8, the promote step - Forward(5) followed by Ready(5, balance) - hands exactly
\* nonces 5 and 6, in that order, to pending and leaves exactly nonce 8 queued, so the
\* next pending nonce is 7.
C13_PromotionScenario ==
    [][(/\ op'.name = "Promote" /\ op'.a = 5
        /\ DOMAIN items = {5, 6, 8}
        /\ SumCostSeq(Ascending(items, DOMAIN items)) <= op'.b) =>
         /\ NonceSeq(ret'.txs) = <<5, 6>>
         /\ DOMAIN items' = {8}
         /\ ret'.txs[Len(ret'.txs)].nonce + 1 = 7]_vars

\* a map that holds nonces 5, 6 and 7, each with price 100 and gas limit 4 (cost 400)
ThreeOf400(m) ==
    /\ DOMAIN m = {5, 6, 7}
    /\ \A n \in DOMAIN m : m[n].price = 100 /\ m[n].gas = 4 /\ m[n].value = 0

\* C14 as claimed: for a strict pending list holding nonces 5, 6 and 7, each of cost 400,
\* Filter with balance 500 (gas limit not binding) leaves exactly nonce 5 in the list.
C14_BalanceDropLeavesFirst ==
    [][(op'.name = "Filter" /\ strict /\ ThreeOf400(items) /\ op'.a = 500 /\ op'.b >= 4) =>
         DOMAIN items' = {5}]_vars

\* C14 amended: for that list Filter with balance 500 removes nothing: no single
\* transaction costs more than 500, so nonces 5, 6 and 7 all stay and both results are empty.
C14_BalanceDropKeepsAll ==
    [][(op'.name = "Filter" /\ strict /\ ThreeOf400(items) /\ op'.a = 500 /\ op'.b >= 4) =>
         /\ items' = items
         /\ totalcost' = totalcost
         /\ ret'.txs = <<>> /\ ret'.invalids = <<>>]_vars

\* Filter(500, 4) has returned on the strict list of three transactions of cost 400
C14_Witness ==
    /\ op.name = "Filter" /\ strict /\ op.a = 500 /\ op.b = 4
    /\ ThreeOf400(items)
    /\ totalcost = 1200
    /\ ret.txs = <<>>

\* C16: adding the same transaction twice is idempotent: the second Add(tx) is not
\* accepted, returns no replaced transaction and leaves entries, costcap, gascap and
\* totalcost as the first Add(tx) left them.
C16_AddTwice ==
    [][(op.name = "Add" /\ op'.name = "Add" /\ op'.tx = op.tx /\ op'.a = op.a) =>
         /\ ~ret'.ok
         /\ ret'.txs = <<>>
         /\ UNCHANGED listVars]_vars

\* an Add of the very transaction the list holds at that nonce was turned down
C16_Witness ==
    /\ op.name = "Add" /\ ~ret.ok /\ ret.txs = <<>>
    /\ op.tx.nonce \in DOMAIN items
    /\ items[op.tx.nonce] = op.tx

(***************************************************************************)
(* Properties of ValidateTransaction                                       *)
(***************************************************************************)
\* the errors of the rules, in the order in which they are to be tested
RuleOrder ==
    << "ErrTxTypeNotSupported", "ErrOversizedData", "ErrNegativeValue", "ErrGasLimit",
       "ErrPriceVeryHigh", "ErrInvalidSender", "ErrIntrinsicGas", "ErrUnderpriced" >>

\* whether the transaction violates rule i
RuleViolated(i, tx, head, opts) ==
    CASE i = 1 -> Type(tx) = UnkownTx
      [] i = 2 -> tx.size > opts.MaxSize
      [] i = 3 -> tx.value < 0
      [] i = 4 -> tx.gasLimit > head.gasLimit
      [] i = 5 -> tx.priceLog2 >= 256
      [] i = 6 -> ~tx.signed
      [] i = 7 -> tx.gasLimit < IntrinsicGas(tx)
      [] i = 8 -> tx.priceLog2 < opts.minTipLog2

\* C20: for a Normal transaction, or one of no supported kind, ValidateTransaction returns
\* the error of the first violated rule in the order unsupported kind, OversizedData,
\* negative value, gas limit above the head's, PriceVeryHigh, InvalidSender, gas limit
\* below the intrinsic gas, Underpriced; it returns nil iff no rule is violated, and it
\* leaves the transaction and the head as they were.
C20_FirstViolatedRule ==
    [][(op'.name = "ValidateTransaction" /\ Type(op.tx) \in {NormalTx, UnkownTx}) =>
         LET v == { i \in 1..8 : RuleViolated(i, op.tx, op.head, op.opts) } IN
         /\ ret'.err = IF v = {} THEN "nil" ELSE RuleOrder[Min(v)]
         /\ (ret'.err = "nil") <=> (v = {})
         /\ op'.tx = op.tx /\ op'.head = op.head]_vars

\* ErrGasLimit was returned for a transaction that is also unsigned and priced below the
\* minimum tip
C20_Witness ==
    /\ op.name = "ValidateTransaction"
    /\ ret.err = "ErrGasLimit"
    /\ ~op.tx.signed
    /\ op.tx.priceLog2 < op.opts.minTipLog2

Needed(tx, opts) ==
    TransactionCost(tx) + opts.ExistingExpenditure
        - (IF opts.ExistingCost = None THEN 0 ELSE opts.ExistingCost)

\* C21: for every kind the pool admits (Normal, Recharge, Withdraw) stateful validation
\* returns nil only if the nonce is not below the state nonce, not above the first nonce
\* gap when gaps are forbidden, and the balance covers cost + earlier costs - replaced
\* cost; otherwise it returns NonceTooLow, NonceTooHigh or InsufficientFunds, checked in
\* that order; and it leaves the transaction and the state as they were.
C21_StatefulAllKinds ==
    [][(op'.name = "ValidateTransactionWithState"
        /\ Type(op.tx) \in {NormalTx, RechargeTx, WithdrawTx}) =>
         LET low == op.tx.nonce < op.opts.nonce
             high == op.opts.FirstNonceGap # None /\ op.tx.nonce > op.opts.FirstNonceGap
             poor == op.opts.balance < Needed(op.tx, op.opts)
         IN /\ (ret'.err = "nil") => (~low /\ ~high /\ ~poor)
            /\ low => ret'.err = "ErrNonceTooLow"
            /\ (~low /\ high) => ret'.err = "ErrNonceTooHigh"
            /\ (~low /\ ~high /\ poor) => ret'.err = "ErrInsufficientFunds"
            /\ op'.tx = op.tx /\ op'.opts = op.opts]_vars

(***************************************************************************)
(* Further claims about the nonce map and the list                         *)
(***************************************************************************)
\* the k largest nonces of m
LargestNonces(m, k) == { n \in DOMAIN m : Cardinality({ j \in DOMAIN m : j > n }) < k }

\* C23: Cap(N): if the map holds at most N entries nothing changes and nothing is
\* returned; otherwise exactly size - N entries are removed and returned, they are the
\* entries with the largest nonces, and the N entries with the smallest nonces remain.
C23_CapKeepsSmallest ==
    [][op'.name = "Cap" =>
         LET n == op'.a
             size == Cardinality(DOMAIN items)
             top == LargestNonces(items, size - n)
         IN IF size <= n
            THEN items' = items /\ ret'.txs = <<>>
            ELSE /\ Len(ret'.txs) = size - n
                 /\ SeqSet(ret'.txs) = { items[k] : k \in top }
                 /\ Cardinality(top) = size - n
                 /\ items' = Restrict(items, (DOMAIN items) \ top)
                 /\ Cardinality(DOMAIN items') = n]_vars

\* Cap(1) on a list of three transactions returned two and left one
C23_Witness ==
    /\ op.name = "Cap" /\ op.a = 1
    /\ Len(ret.txs) = 2
    /\ Cardinality(DOMAIN items) = 1

\* C30: when Filter removes at least one transaction from a strict list, the invalidated
\* transactions are exactly the remaining ones with a nonce above the lowest removed nonce,
\* and they all leave the list; on a non-strict list nothing is invalidated and every
\* transaction within both limits stays.
C30_StrictCascade ==
    [][op'.name = "Filter" =>
         LET gone == { ret'.txs[i].nonce : i \in 1..Len(ret'.txs) }
             remaining == (DOMAIN items) \ gone
         IN /\ (strict /\ ret'.txs # <<>>) =>
                 LET lowest == Min(gone)
                     cascade == { n \in remaining : n > lowest }
                 IN /\ SeqSet(ret'.invalids) = { items[n] : n \in cascade }
                    /\ Len(ret'.invalids) = Cardinality(cascade)
                    /\ DOMAIN items' = remaining \ cascade
            /\ ~strict =>
                 /\ ret'.invalids = <<>>
                 /\ \A n \in DOMAIN items :
                       (Cost(items[n]) <= op'.a /\ items[n].gas <= op'.b)
                       => (n \in DOMAIN items' /\ items'[n] = items[n])]_vars

\* a strict Filter removed the lowest of three transactions for its gas limit and
\* invalidated both transactions above it, which were within the limits
C30_Witness ==
    /\ strict /\ op.name = "Filter"
    /\ Len(ret.txs) = 1 /\ Len(ret.invalids) = 2
    /\ \A i \in 1..2 : /\ ret.invalids[i].nonce > ret.txs[1].nonce
                        /\ Cost(ret.invalids[i]) <= op.a /\ ret.invalids[i].gas <= op.b
    /\ items = <<>>

(***************************************************************************)
(* Further claims about the lookup                                         *)
(***************************************************************************)
\* C24: RemoteToLocals(set) moves every remote transaction whose sender is in set from
\* remotes to locals and no other: afterwards no remote has a sender in set, no hash is
\* in both partitions, Count() and Slots() are unchanged, and the return value is the
\* number of transactions moved.
C24_RemoteToLocalsMoves ==
    [][op'.name = "RemoteToLocals" =>
         LET moved == { h \in remotes : TxFrom(h) \in op'.set } IN
         /\ locals' = locals \cup moved
         /\ remotes' = remotes \ moved
         /\ \A h \in remotes' : TxFrom(h) \notin op'.set
         /\ locals' \cap remotes' = {}
         /\ Cardinality(locals') + Cardinality(remotes')
                = Cardinality(locals) + Cardinality(remotes)
         /\ slots' = slots
         /\ ret'.n = Cardinality(moved)]_vars

\* C29: the account set never shrinks and its cached list is never stale: add, addTx and
\* merge leave every earlier member and the added ones in the set, and flatten returns
\* exactly the current members, each once, also when an earlier flatten had cached a list
\* before a later add or merge.
C29_SetGrowsCacheFresh ==
    [][/\ accounts \subseteq accounts'
       /\ op'.name = "add" => op'.addr \in accounts'
       /\ op'.name = "addTx" => TxFrom(op'.h) \in accounts'
       /\ op'.name = "merge" => op'.other \subseteq accounts'
       /\ op'.name = "flatten" =>
            /\ SeqSet(ret'.list) = accounts'
            /\ Len(ret'.list) = Cardinality(accounts')
            /\ accounts' = accounts
       /\ ~cache'.nil =>
            (SeqSet(cache'.list) = accounts' /\ Len(cache'.list) = Cardinality(accounts'))]_vars

\* flatten returned three members right after a call that had dropped the list cached by
\* an earlier flatten
C29_Witness ==
    /\ op.name = "flatten" /\ op.cached
    /\ Len(ret.list) = 3 /\ SeqSet(ret.list) = Addresses

\* C25: under any interleaving of Add, Remove and RemoteToLocals with concurrent Get,
\* GetLocal, GetRemote, Count, Slots and Range, every read observes the state before or
\* after a whole mutation: no mutation is in progress while it reads, the slot counter
\* matches the stored transactions, and what it returns is what the maps and the counter
\* hold.
C25_ReadersSeeWholeMutations ==
    [][reader'.pc = "read" =>
         /\ writer.pc = "idle" /\ ~lock.w
         /\ slots = SumSlots(locals \cup remotes)
         /\ reader'.seen \in Reads(reader)]_vars

(***************************************************************************)
(* Further claims about the priced list                                    *)
(***************************************************************************)
\* the entry a heap pops next is first in the order: no entry has a strictly lower price,
\* and none of its price has a higher nonce
TopFirst(list) ==
    \A i \in 1..Len(list) :
        \/ TxPrice(list[1]) < TxPrice(list[i])
        \/ TxPrice(list[1]) = TxPrice(list[i]) /\ TxNonce(list[1]) >= TxNonce(list[i])

CountFields == {"PriceLimit", "PriceBump", "AccountSlots", "GlobalSlots", "AccountQueue",
                "GlobalQueue"}

\* C28: Config.sanitize returns a configuration with Rejournal >= 1 s, PriceLimit,
\* PriceBump, AccountSlots, GlobalSlots, AccountQueue and GlobalQueue >= 1 and
\* Lifetime >= 1; every field that already satisfied its floor, and every field without
\* one, is returned unchanged; the receiver is not modified; and sanitizing the result
\* again gives the same result.
C28_SanitizeFloors ==
    [][/\ op'.name = "sanitize" =>
            LET in == op.config
                out == ret'.conf
            IN /\ ~DurationLess(out.Rejournal, Second)
               /\ \A f \in CountFields : out[f] >= 1
               /\ ~DurationLess(out.Lifetime, Nanosecond)
               /\ ~DurationLess(in.Rejournal, Second) => out.Rejournal = in.Rejournal
               /\ \A f \in CountFields : in[f] >= 1 => out[f] = in[f]
               /\ ~DurationLess(in.Lifetime, Nanosecond) => out.Lifetime = in.Lifetime
               /\ out.NoLocals = in.NoLocals /\ out.Journal = in.Journal
               /\ op'.config = op.config
       /\ op'.name = "sanitize again" => (ret'.conf = ret.conf /\ op'.config = op.config)]_vars

\* a configuration with a 1 ns journal interval, zero slots and a price bump of 5 was
\* sanitized twice: the bump and the lifetime of 1 ns stayed, the rest was raised
C28_Witness ==
    /\ op.name = "sanitize again"
    /\ op.config.Rejournal = Duration(0, 999999999) /\ ret.conf.Rejournal = Second
    /\ op.config.GlobalSlots = 0 /\ ret.conf.GlobalSlots = 5120
    /\ op.config.PriceBump = 5 /\ ret.conf.PriceBump = 5
    /\ op.config.Lifetime = Nanosecond /\ ret.conf.Lifetime = Nanosecond

\* C26: the priced list is protected by its own lock: Put is never inside the heaps
\* while Reheap is, and once both have returned every remote transaction is held in the
\* two heaps exactly once, neither missing nor twice.
C26_HeapsUnderOwnLock ==
    /\ ~(reheaping.pc # "idle" /\ putting.pc = "Put.store")
    /\ (reheaping.pc = "idle" /\ putting.pc = "idle") =>
          \A h \in remotes : Count(urgent, h) + Count(floating, h) = 1

(***************************************************************************)
(* Claims about list.Remove and the list's total cost                      *)
(***************************************************************************)
\* C31: Remove(tx): if no entry holds tx's nonce it returns (false, nil) and the list is
\* unchanged; otherwise the entry under that nonce is removed and, in strict mode, every
\* entry with a higher nonce is removed and returned as invalidated, while in non-strict
\* mode all other entries stay and nothing is returned.
C31_RemoveCascade ==
    [][op'.name = "Remove" =>
         LET n == op'.tx.nonce
             higher == { k \in DOMAIN items : k > n }
             kept == IF strict THEN { k \in DOMAIN items : k < n } ELSE DOMAIN items \ {n}
         IN IF n \notin DOMAIN items
            THEN ~ret'.ok /\ ret'.txs = <<>> /\ UNCHANGED listVars
            ELSE /\ ret'.ok
                 /\ items' = Restrict(items, kept)
                 /\ IF strict
                    THEN /\ Len(ret'.txs) = Cardinality(higher)
                         /\ SeqSet(ret'.txs) = { items[k] : k \in higher }
                    ELSE ret'.txs = <<>>
                 /\ UNCHANGED <<strict, costcap, gascap>>]_vars

\* a strict Remove of a transaction other than the stored one has invalidated two entries
C31_Witness ==
    /\ op.name = "Remove" /\ strict /\ ret.ok
    /\ Len(ret.txs) = 2
    /\ totalcost # StoredCost

\* C35: after any sequence of Add, Forward, Filter, Cap and Remove, totalcost is the sum of
\* the costs of the stored transactions, also when Remove is handed a transaction with the
\* nonce of a stored entry and another cost.
C35_TotalCostIsStoredCost == totalcost = StoredCost

(***************************************************************************)
(* Claims about Lookup.Remove                                              *)
(***************************************************************************)
\* C34: Remove(hash) of a hash held in neither partition changes nothing: slots, locals,
\* remotes and the count stay; Remove of a held hash takes it out of the partition that
\* holds it and lowers slots by exactly numSlots of that transaction.
C34_LookupRemove ==
    [][op'.name = "Remove" =>
         LET h == op'.h IN
         IF h \notin locals /\ h \notin remotes
         THEN /\ UNCHANGED lookupVars
              /\ Cardinality(locals') + Cardinality(remotes') =
                     Cardinality(locals) + Cardinality(remotes)
         ELSE /\ locals' = locals \ {h}
              /\ remotes' = remotes \ {h}
              /\ slots' = slots - numSlots(PoolTx(h))]_vars

\* a Remove of a stored two-slot transaction has left other transactions in both partitions
C34_Witness ==
    /\ op.name = "Remove" /\ ret.ok
    /\ numSlots(PoolTx(op.h)) = 2
    /\ op.h \notin locals \cup remotes
    /\ locals # {} /\ remotes # {}

(***************************************************************************)
(* Claims about PricedList.Discard and Underpriced                         *)
(***************************************************************************)
\* the live remote transactions held in the given heaps
LiveIn(u, f, rem) == (SeqSet(u) \cup SeqSet(f)) \cap rem

\* C32: Discard evicts the most underpriced transactions: every transaction it returns has
\* a price less than or equal to the price of every live remote transaction that the
\* urgent or the floating heap still holds when Discard returns.
C32_DiscardEvictsCheapest ==
    [][op'.name = "Discard" =>
         \A i \in 1..Len(ret'.txs) : \A h \in LiveIn(urgent', floating', remotes') :
            TxPrice(ret'.txs[i]) <= TxPrice(h)]_vars

\* C33: Discard never drops a transaction straight from the urgent heap: each loop step
\* pops urgent iff |urgent| * 1 > |floating| * 4; a live transaction popped from urgent is
\* pushed onto floating and a stale one is not; a step adds to the drops only the entry it
\* popped from floating; and Discard returns, when it returns any, exactly those drops.
C33_DropsOnlyFromFloating ==
    [][/\ (discarding.pc = "loop" /\ discarding'.pc = "loop") =>
            IF Len(urgent) * 1 > Len(floating) * 4
            THEN /\ Len(urgent') = Len(urgent) - 1
                 /\ discarding'.drop = discarding.drop
                 /\ IF urgent[1] \in remotes
                    THEN /\ Len(floating') = Len(floating) + 1
                         /\ Count(floating', urgent[1]) = Count(floating, urgent[1]) + 1
                    ELSE floating' = floating
            ELSE /\ urgent' = urgent
                 /\ Len(floating') = Len(floating) - 1
                 /\ \/ discarding'.drop = discarding.drop
                    \/ discarding'.drop = Append(discarding.drop, floating[1])
       /\ (discarding.pc = "loop" /\ discarding'.pc = "idle") =>
            ret'.txs \in {<<>>, discarding.drop}]_vars

\* inside the loop a live transaction has been demoted and is in floating, after another
\* was dropped from floating
C33_Witness ==
    /\ discarding.pc = "loop"
    /\ discarding.drop # <<>>
    /\ floating # <<>> /\ SeqSet(floating) \subseteq remotes

\* C38: Discard terminates for every heap content, every mix of stale and live entries,
\* every slotsNeeded and both values of force: each loop step shrinks the urgent heap or
\* the floating heap, the loop runs only while slots are needed and a heap is not empty,
\* and every call that entered the loop returns.
C38_DiscardTerminates ==
    /\ [][(discarding.pc = "loop" /\ discarding'.pc = "loop") =>
             /\ Len(urgent') < Len(urgent) \/ Len(floating') < Len(floating)
             /\ 2 * Len(urgent') + Len(floating') < 2 * Len(urgent) + Len(floating)
             /\ discarding.slots > 0
             /\ Len(urgent) + Len(floating) > 0]_vars
    /\ [][(discarding.pc = "loop" /\ discarding'.pc = "idle") =>
             discarding.slots <= 0 \/ Len(urgent) + Len(floating) = 0]_vars
    /\ (discarding.pc = "loop") ~> (discarding.pc = "idle")

\* a forced Discard has left its loop with both heaps empty and slots still needed, and
\* has returned the two transactions it dropped
C38_Witness ==
    /\ op.name = "Discard" /\ op.flag /\ ret.ok
    /\ discarding.pc = "idle"
    /\ urgent = <<>> /\ floating = <<>>
    /\ Len(ret.txs) = 2 /\ SumSlots(SeqSet(ret.txs)) < op.n

\* C36: each live remote transaction is held at most once across the urgent and the
\* floating heap, also after a removed transaction is added again, and Discard never
\* returns the same transaction twice.
C36_HeldAtMostOnce ==
    /\ \A h \in remotes : Count(urgent, h) + Count(floating, h) <= 1
    /\ op.name = "Discard" => \A h \in SeqSet(ret.txs) : Count(ret.txs, h) = 1

\* C37: Underpriced is a query with respect to live content: it may pop stale entries off
\* the heap tops, lowering the stale counter by one per popped entry, but it never removes,
\* adds or moves an entry of a transaction in Lookup.remotes and never changes the Lookup.
C37_UnderpricedKeepsLive ==
    [][op'.name = "Underpriced" =>
         /\ UNCHANGED lookupVars
         /\ \A h \in SeqSet(urgent) \cup SeqSet(floating) \cup SeqSet(urgent') \cup SeqSet(floating') :
               /\ Count(urgent', h) <= Count(urgent, h)
               /\ Count(floating', h) <= Count(floating, h)
               /\ h \in remotes => /\ Count(urgent', h) = Count(urgent, h)
                                   /\ Count(floating', h) = Count(floating, h)
         /\ stales - stales' = (Len(urgent) - Len(urgent')) + (Len(floating) - Len(floating'))]_vars

\* an Underpriced call has popped a stale entry off a heap that holds live remotes
C37_Witness ==
    /\ op.name = "Underpriced" /\ ret.n >= 1
    /\ SeqSet(urgent) \cap remotes # {}
    /\ Cardinality(remotes) >= 2


(***************************************************************************)
(* Claims about EasyStateDB.Copy                                           *)
(***************************************************************************)
\* what a database lets a caller read: every balance and every nonce
Readable(db, heap) ==
    [a \in Accounts |-> [balance |-> GetBalance(db, heap, a), nonce |-> GetNonce(db, a)]]

\* C39: a state copy is independent of its original: once the copy is made, AddBalance,
\* SubBalance, SetBalance and SetNonce on the copy leave every balance and nonce readable
\* from the original unchanged, and a call on the original leaves those of the copy
\* unchanged.
C39_CopyIndependent ==
    [][(copy # NoStateDB /\ op'.name \in {"AddBalance", "SubBalance", "SetBalance", "SetNonce"})
          => /\ op'.db = "copy" => Readable(original', ints') = Readable(original, ints)
             /\ op'.db = "original" => Readable(copy', ints') = Readable(copy, ints)]_vars

====
